---- MODULE Spec2Model ----
(***************************************************************************)
(* PI Planner: the planner state store (src/src/store/piStore.ts), the     *)
(* scheduling helpers (src/src/lib/calc.ts) and the handlers that relocate *)
(* or update a ticket (src/src/App.tsx, the ticket edit modal).            *)
(*                                                                         *)
(* Ticket ids are the integers 1..MaxTickets handed out in order (nanoid   *)
(* never repeats an id); sprint, developer and feature ids are strings.    *)
(* The seed dataset of persist.ts is reduced to two sprints, two           *)
(* developers, two features and two tickets.                               *)
(***************************************************************************)
EXTENDS Integers, Sequences, FiniteSets, TLC

VARIABLES sprints, developers, features, tickets, currentSprint, ticketBaseUrl,
          persisted, keyboardMove, liveAnnouncement, notices,
          activeTicketId, nextTicketId, calc, error, registry, overlay

dataVars == <<sprints, developers, features, tickets, currentSprint, ticketBaseUrl>>
uiVars == <<keyboardMove, liveAnnouncement, notices, activeTicketId, error, registry,
           overlay>>
vars == <<sprints, developers, features, tickets, currentSprint, ticketBaseUrl,
          persisted, keyboardMove, liveAnnouncement, notices,
          activeTicketId, nextTicketId, calc, error, registry, overlay>>

\* ------------------------------------------------------------------ bounds
MaxTickets == 2
MaxNotices == 1
MaxTrailLen == 2
MaxCalcLen == 4
MaxCalcDeps == 2
MaxDevelopers == 3

\* --------------------------------------------------------------- constants
BACKLOG_COLUMN_ID == "backlog"
UNASSIGNED_DEVELOPER_ID == "unassigned"
DEFAULT_SPRINT_CAPACITY == 8
REQUIRED_SPRINT_COUNT == 2

Null == "null"
Undefined == "undefined"

\* ------------------------------------------------------------ sequence kit
Range(s) == {s[i] : i \in DOMAIN s}

RECURSIVE FilterSeq(_, _)
\* Array.prototype.filter with the kept elements given as a set
FilterSeq(s, keep) ==
    IF s = <<>> THEN <<>>
    ELSE (IF Head(s) \in keep THEN <<Head(s)>> ELSE <<>>) \o FilterSeq(Tail(s), keep)

\* Array.prototype.indexOf: 0-based position of the first occurrence, -1 if none
IndexOf(s, x) ==
    IF \E i \in DOMAIN s : s[i] = x
    THEN (CHOOSE i \in DOMAIN s : s[i] = x /\ \A j \in 1..(i - 1) : s[j] # x) - 1
    ELSE -1

\* ------------------------------------------------------------------ calc.ts
currentSprintId(ticket) ==
    IF ticket.sprintIds = <<>> THEN Undefined
    ELSE ticket.sprintIds[Len(ticket.sprintIds)]

sprintIndex(id, ordered) == IndexOf(ordered, id)

RECURSIVE Dedupe(_, _)
\* the `seen` filter of sortSprintTrail: keeps the first occurrence of each id
Dedupe(s, seen) ==
    IF s = <<>> THEN <<>>
    ELSE IF Head(s) \in seen THEN Dedupe(Tail(s), seen)
         ELSE <<Head(s)>> \o Dedupe(Tail(s), seen \cup {Head(s)})

RECURSIVE InsertStable(_, _, _)
\* puts x after every element whose index is not greater than x's (stable)
InsertStable(x, s, ordered) ==
    IF s = <<>> THEN <<x>>
    ELSE IF sprintIndex(Head(s), ordered) <= sprintIndex(x, ordered)
         THEN <<Head(s)>> \o InsertStable(x, Tail(s), ordered)
         ELSE <<x>> \o s

RECURSIVE StableSortByIndex(_, _)
\* Array.prototype.sort with the comparator sprintIndex(a) - sprintIndex(b);
\* the sort is stable (ES2019), which an insertion from the right reproduces
StableSortByIndex(s, ordered) ==
    IF s = <<>> THEN <<>>
    ELSE LET n == Len(s)
         IN InsertStable(s[n], StableSortByIndex(SubSeq(s, 1, n - 1), ordered), ordered)

\* sortSprintTrail without the `seen` filter
sortSprintTrailKeepsRepeats(sprintIds, ordered) == StableSortByIndex(sprintIds, ordered)

\* sortSprintTrail without the sort
sortSprintTrailUnsorted(sprintIds, ordered) == Dedupe(sprintIds, {})

sortSprintTrail(sprintIds, ordered) == StableSortByIndex(Dedupe(sprintIds, {}), ordered)

\* isMoveBlockedByDeps comparing with >= in place of >
isMoveBlockedByDepsNotStrict(ticket, targetSprintId, getTicket, orderedIds) ==
    IF targetSprintId = BACKLOG_COLUMN_ID
    THEN [blocked |-> FALSE, blockers |-> <<>>]
    ELSE LET targetIdx == sprintIndex(targetSprintId, orderedIds)
             later == {depId \in Range(ticket.dependencies) :
                          /\ depId \in DOMAIN getTicket
                          /\ sprintIndex(currentSprintId(getTicket[depId]), orderedIds)
                                 >= targetIdx}
             blockers == FilterSeq(ticket.dependencies, later)
         IN [blocked |-> Len(blockers) > 0, blockers |-> blockers]

\* isMoveBlockedByDeps without the early return for the Backlog target
isMoveBlockedByDepsNoBacklogCase(ticket, targetSprintId, getTicket, orderedIds) ==
    LET targetIdx == sprintIndex(targetSprintId, orderedIds)
        later == {depId \in Range(ticket.dependencies) :
                     /\ depId \in DOMAIN getTicket
                     /\ sprintIndex(currentSprintId(getTicket[depId]), orderedIds)
                            > targetIdx}
        blockers == FilterSeq(ticket.dependencies, later)
    IN [blocked |-> Len(blockers) > 0, blockers |-> blockers]

\* getTicket: a function from the resolvable ticket ids to their tickets
isMoveBlockedByDeps(ticket, targetSprintId, getTicket, orderedIds) ==
    IF targetSprintId = BACKLOG_COLUMN_ID
    THEN [blocked |-> FALSE, blockers |-> <<>>]
    ELSE LET targetIdx == sprintIndex(targetSprintId, orderedIds)
             later == {depId \in Range(ticket.dependencies) :
                          /\ depId \in DOMAIN getTicket
                          /\ sprintIndex(currentSprintId(getTicket[depId]), orderedIds)
                                 > targetIdx}
             blockers == FilterSeq(ticket.dependencies, later)
         IN [blocked |-> Len(blockers) > 0, blockers |-> blockers]

\* --------------------------------------------------------------- piStore.ts
RECURSIVE InsertByOrder(_, _)
InsertByOrder(sp, s) ==
    IF s = <<>> THEN <<sp>>
    ELSE IF Head(s).order <= sp.order THEN <<Head(s)>> \o InsertByOrder(sp, Tail(s))
         ELSE <<sp>> \o s

RECURSIVE SortByOrder(_)
\* [...sprints].sort((a, b) => a.order - b.order), stable
SortByOrder(s) ==
    IF s = <<>> THEN <<>>
    ELSE InsertByOrder(s[Len(s)], SortByOrder(SubSeq(s, 1, Len(s) - 1)))

orderedSprints(sprintList) ==
    LET sorted == SortByOrder(sprintList) IN [i \in DOMAIN sorted |-> sorted[i].id]

clampIndex(value, length) ==
    IF length = 0 THEN 0
    ELSE IF value < 0 THEN 0
    ELSE IF value > length - 1 THEN length - 1
    ELSE value

\* tickets.find((t) => t.id === id): the first match, as a lookup function
TicketIds(ts) == {ts[i].id : i \in DOMAIN ts}
FindTicket(ts, id) == ts[CHOOSE i \in DOMAIN ts : ts[i].id = id /\ \A j \in 1..(i - 1) : ts[j].id # id]
TicketLookup(ts) == [id \in TicketIds(ts) |-> FindTicket(ts, id)]

DeveloperIds(ds) == {ds[i].id : i \in DOMAIN ds}
FeatureIds(fs) == {fs[i].id : i \in DOMAIN fs}
SprintIds(ss) == {ss[i].id : i \in DOMAIN ss}

State ==
    [sprints |-> sprints, developers |-> developers, features |-> features,
     tickets |-> tickets, currentSprintId |-> currentSprint,
     ticketBaseUrl |-> ticketBaseUrl]

\* commit: the snapshot handed to persistPlannerState; `??` falls back to the
\* store's value when the patch field is missing or null
commit(patch) ==
    [sprints |-> IF "sprints" \in DOMAIN patch THEN patch.sprints ELSE sprints,
     developers |-> IF "developers" \in DOMAIN patch THEN patch.developers ELSE developers,
     features |-> IF "features" \in DOMAIN patch THEN patch.features ELSE features,
     tickets |-> IF "tickets" \in DOMAIN patch THEN patch.tickets ELSE tickets,
     currentSprintId |->
        IF "currentSprintId" \in DOMAIN patch /\ patch.currentSprintId # Null
        THEN patch.currentSprintId ELSE currentSprint,
     ticketBaseUrl |->
        IF "ticketBaseUrl" \in DOMAIN patch /\ patch.ticketBaseUrl # Null
        THEN patch.ticketBaseUrl ELSE ticketBaseUrl]

\* no fallback to the Backlog
NonEmptyTrailNoFallback(trail) == trail

\* `trail.length ? trail : [BACKLOG_COLUMN_ID]`
NonEmptyTrail(trail) == IF Len(trail) = 0 THEN <<BACKLOG_COLUMN_ID>> ELSE trail

\* moveTicketTo extending into the Backlog as into any sprint
moveTicketToTicketsExtendsBacklog(ts, sprintList, id, toSprintId, developerId, mode) ==
    LET orderedSprintIds == orderedSprints(sprintList)
        moved(ticket) ==
            IF ticket.id # id THEN ticket
            ELSE LET baseTrail ==
                         IF mode = "extend"
                         THEN sortSprintTrail(Append(ticket.sprintIds, toSprintId),
                                              orderedSprintIds)
                         ELSE <<toSprintId>>
                 IN [ticket EXCEPT !.sprintIds = NonEmptyTrail(baseTrail),
                                   !.developerId = developerId]
    IN [i \in DOMAIN ts |-> moved(ts[i])]

\* moveTicketTo appending the target without sortSprintTrail
moveTicketToTicketsAppendsOnly(ts, sprintList, id, toSprintId, developerId, mode) ==
    LET moved(ticket) ==
            IF ticket.id # id THEN ticket
            ELSE LET baseTrail ==
                         IF mode = "extend" /\ toSprintId # BACKLOG_COLUMN_ID
                         THEN Append(ticket.sprintIds, toSprintId)
                         ELSE <<toSprintId>>
                 IN [ticket EXCEPT !.sprintIds = NonEmptyTrail(baseTrail),
                                   !.developerId = developerId]
    IN [i \in DOMAIN ts |-> moved(ts[i])]

\* the ticket list moveTicketTo computes
moveTicketToTickets(ts, sprintList, id, toSprintId, developerId, mode) ==
    LET orderedSprintIds == orderedSprints(sprintList)
        moved(ticket) ==
            IF ticket.id # id THEN ticket
            ELSE LET baseTrail ==
                         IF mode = "extend" /\ toSprintId # BACKLOG_COLUMN_ID
                         THEN sortSprintTrail(Append(ticket.sprintIds, toSprintId),
                                              orderedSprintIds)
                         ELSE <<toSprintId>>
                 IN [ticket EXCEPT !.sprintIds = NonEmptyTrail(baseTrail),
                                   !.developerId = developerId]
    IN [i \in DOMAIN ts |-> moved(ts[i])]

\* the ticket list updateTicket computes; a patch is a record holding the
\* fields that are given
updateTicketTickets(ts, sprintList, id, patch) ==
    LET orderedSprintIds == orderedSprints(sprintList)
        updated(ticket) ==
            IF ticket.id # id THEN ticket
            ELSE LET developerId ==
                         IF "developerId" \in DOMAIN patch THEN patch.developerId
                         ELSE ticket.developerId
                     sprintIds ==
                         IF "sprintIds" \in DOMAIN patch
                         THEN sortSprintTrail(patch.sprintIds, orderedSprintIds)
                         ELSE ticket.sprintIds
                     merged == [f \in DOMAIN ticket |->
                                   IF f \in DOMAIN patch THEN patch[f] ELSE ticket[f]]
                 IN [merged EXCEPT !.developerId = developerId,
                                   !.sprintIds = NonEmptyTrail(sprintIds)]
    IN [i \in DOMAIN ts |-> updated(ts[i])]

\* the store's isMoveBlockedByDeps(ticketId, targetSprintId)
storeIsMoveBlockedByDeps(ts, sprintList, ticketId, targetSprintId) ==
    IF ticketId \notin TicketIds(ts)
    THEN [blocked |-> FALSE, blockers |-> <<>>]
    ELSE isMoveBlockedByDeps(FindTicket(ts, ticketId), targetSprintId,
                             TicketLookup(ts), orderedSprints(sprintList))

RECURSIVE SumStoryPoints(_)
\* reduce((sum, ticket) => sum + ticket.storyPoints, 0)
SumStoryPoints(ts) ==
    IF ts = <<>> THEN 0
    ELSE SumStoryPoints(SubSeq(ts, 1, Len(ts) - 1)) + ts[Len(ts)].storyPoints

\* sprint?.capacityPerDevSP ?? DEFAULT_SPRINT_CAPACITY
capacityOf(sprintList, sprintId) ==
    LET found == SelectSeq(sprintList, LAMBDA s : s.id = sprintId)
    IN IF found # <<>> /\ "capacityPerDevSP" \in DOMAIN found[1]
       THEN found[1].capacityPerDevSP
       ELSE DEFAULT_SPRINT_CAPACITY

getCapacityByCountsWholeTrail(ts, sprintList, developerId, sprintId) ==
    LET capacity == capacityOf(sprintList, sprintId)
        assigned ==
            SumStoryPoints(SelectSeq(ts, LAMBDA ticket :
                /\ ticket.developerId = developerId
                /\ sprintId \in Range(ticket.sprintIds)))
    IN [assigned |-> assigned, capacity |-> capacity, over |-> assigned > capacity]

getCapacityBy(ts, sprintList, developerId, sprintId) ==
    LET capacity == capacityOf(sprintList, sprintId)
        assigned ==
            SumStoryPoints(SelectSeq(ts, LAMBDA ticket :
                /\ ticket.developerId = developerId
                /\ currentSprintId(ticket) = sprintId))
    IN [assigned |-> assigned, capacity |-> capacity, over |-> assigned > capacity]

\* String.prototype.trim on the texts the operations are given
trim(text) ==
    CASE text = " Bob " -> "Bob"
      [] text = "Bob " -> "Bob"
      [] text = "  " -> ""
      [] text = " https://jira.example/browse " -> "https://jira.example/browse"
      [] OTHER -> text

ensureUnassignedDeveloperAlwaysPrepends(ds) ==
    <<[id |-> UNASSIGNED_DEVELOPER_ID, name |-> "Unassigned"]>> \o ds

ensureUnassignedDeveloper(ds) ==
    IF UNASSIGNED_DEVELOPER_ID \in DeveloperIds(ds) THEN ds
    ELSE <<[id |-> UNASSIGNED_DEVELOPER_ID, name |-> "Unassigned"]>> \o ds

\* the id `S${index}` of a synthesized sprint
SlotId(index) ==
    CASE index = 1 -> "S1" [] index = 2 -> "S2" [] index = 3 -> "S3"
      [] index = 4 -> "S4" [] OTHER -> "S5"

RECURSIVE PadSprints(_, _)
\* the while loop of ensureSprintSlots
PadSprints(result, nextOrder) ==
    IF Len(result) >= REQUIRED_SPRINT_COUNT THEN result
    ELSE PadSprints(Append(result, [id |-> SlotId(Len(result) + 1), order |-> nextOrder,
                                    capacityPerDevSP |-> DEFAULT_SPRINT_CAPACITY]),
                    nextOrder + 1)

ensureSprintSlots(ss) ==
    LET sorted == SortByOrder(ss)
        nextOrder == IF Len(sorted) > 0 THEN sorted[Len(sorted)].order + 1 ELSE 1
    IN PadSprints(sorted, nextOrder)

normalizeStateKeepsReferences(data) ==
    LET devs == ensureUnassignedDeveloper(data.developers)
        sps == ensureSprintSlots(data.sprints)
        feats == IF Len(data.features) > 0 THEN data.features
                 ELSE <<[id |-> "feature-default", name |-> "New Feature"]>>
        sprintOrder == [i \in DOMAIN sps |-> sps[i].id]
        sprintSet == Range(sprintOrder) \cup {BACKLOG_COLUMN_ID}
        ticketIds == TicketIds(data.tickets)
        \* jiraUrl: ticket.jiraUrl?.trim() ? ticket.jiraUrl.trim() : undefined
        trimmedUrl(ticket) ==
            IF "jiraUrl" \notin DOMAIN ticket THEN ticket
            ELSE [ticket EXCEPT !.jiraUrl =
                     IF ticket.jiraUrl # Undefined /\ trim(ticket.jiraUrl) # ""
                     THEN trim(ticket.jiraUrl) ELSE Undefined]
        sanitized(ticket) ==
            [trimmedUrl(ticket) EXCEPT
                !.featureId = IF ticket.featureId \in FeatureIds(feats)
                              THEN ticket.featureId ELSE feats[1].id,
                !.sprintIds = NonEmptyTrail(
                                  sortSprintTrail(FilterSeq(ticket.sprintIds, sprintSet),
                                                  sprintOrder)),
                !.dependencies = FilterSeq(FilterSeq(ticket.dependencies,
                                                     Range(ticket.dependencies) \ {ticket.id}),
                                           ticketIds)]
        ordered == SortByOrder(sps)
        fallbackCurrent == IF Len(ordered) > 0 THEN ordered[1].id ELSE Null
    IN [sprints |-> sps,
        developers |-> devs,
        features |-> feats,
        tickets |-> [i \in DOMAIN data.tickets |-> sanitized(data.tickets[i])],
        currentSprintId |->
            IF data.currentSprintId # Null /\ data.currentSprintId \in SprintIds(sps)
            THEN data.currentSprintId ELSE fallbackCurrent,
        ticketBaseUrl |->
            IF data.ticketBaseUrl # Null /\ trim(data.ticketBaseUrl) # ""
            THEN trim(data.ticketBaseUrl) ELSE Null]

normalizeState(data) ==
    LET devs == ensureUnassignedDeveloper(data.developers)
        sps == ensureSprintSlots(data.sprints)
        feats == IF Len(data.features) > 0 THEN data.features
                 ELSE <<[id |-> "feature-default", name |-> "New Feature"]>>
        sprintOrder == [i \in DOMAIN sps |-> sps[i].id]
        sprintSet == Range(sprintOrder) \cup {BACKLOG_COLUMN_ID}
        ticketIds == TicketIds(data.tickets)
        \* jiraUrl: ticket.jiraUrl?.trim() ? ticket.jiraUrl.trim() : undefined
        trimmedUrl(ticket) ==
            IF "jiraUrl" \notin DOMAIN ticket THEN ticket
            ELSE [ticket EXCEPT !.jiraUrl =
                     IF ticket.jiraUrl # Undefined /\ trim(ticket.jiraUrl) # ""
                     THEN trim(ticket.jiraUrl) ELSE Undefined]
        sanitized(ticket) ==
            [trimmedUrl(ticket) EXCEPT
                !.developerId = IF ticket.developerId \in DeveloperIds(devs)
                                THEN ticket.developerId ELSE UNASSIGNED_DEVELOPER_ID,
                !.featureId = IF ticket.featureId \in FeatureIds(feats)
                              THEN ticket.featureId ELSE feats[1].id,
                !.sprintIds = NonEmptyTrail(
                                  sortSprintTrail(FilterSeq(ticket.sprintIds, sprintSet),
                                                  sprintOrder)),
                !.dependencies = FilterSeq(FilterSeq(ticket.dependencies,
                                                     Range(ticket.dependencies) \ {ticket.id}),
                                           ticketIds)]
        ordered == SortByOrder(sps)
        fallbackCurrent == IF Len(ordered) > 0 THEN ordered[1].id ELSE Null
    IN [sprints |-> sps,
        developers |-> devs,
        features |-> feats,
        tickets |-> [i \in DOMAIN data.tickets |-> sanitized(data.tickets[i])],
        currentSprintId |->
            IF data.currentSprintId # Null /\ data.currentSprintId \in SprintIds(sps)
            THEN data.currentSprintId ELSE fallbackCurrent,
        ticketBaseUrl |->
            IF data.ticketBaseUrl # Null /\ trim(data.ticketBaseUrl) # ""
            THEN trim(data.ticketBaseUrl) ELSE Null]

\* ------------------------------------------------------- persist.ts (seed)
Sprint(id, order) == [id |-> id, order |-> order, capacityPerDevSP |-> DEFAULT_SPRINT_CAPACITY]
Developer(id, name) == [id |-> id, name |-> name]
Feature(id, name) == [id |-> id, name |-> name]
KeyOf(id) == <<"KEY", id>>
Ticket(id, sp, dev, feat, trail, deps) ==
    [id |-> id, key |-> KeyOf(id), storyPoints |-> sp, developerId |-> dev,
     featureId |-> feat, sprintIds |-> trail, dependencies |-> deps]

\* buildSeedData, reduced
defaultData ==
    [sprints |-> ensureSprintSlots(<<Sprint("S1", 1), Sprint("S2", 2)>>),
     developers |-> <<Developer(UNASSIGNED_DEVELOPER_ID, "Unassigned"),
                      Developer("dev-alice", "Alice")>>,
     features |-> <<Feature("F1", "Unified Billing"), Feature("F2", "Onboarding Experience")>>,
     tickets |-> <<Ticket(1, 5, "dev-alice", "F1", <<"S1">>, <<>>)>>,
     currentSprintId |-> "S1",
     ticketBaseUrl |-> Null]

\* loadPlannerState on an empty storage returns (and stores) the seed
loadPlannerState == defaultData

seed == normalizeState(loadPlannerState)

NoKeyboardMove == [ticketId |-> 0]
NoAnnouncement == [kind |-> "none"]
NoTicket == 0
NoCalc == [op |-> "none"]
\* TicketRefProvider before any card has reported: useState({}), new Set()
NoRegistry ==
    [positions |-> <<>>, pendingRemoval |-> {}, active |-> NoTicket, cards |-> <<>>,
     collapsed |-> FALSE]
\* a rectangle that is null
NoRect == [absent |-> TRUE]
\* DependencyOverlay before its container is measured; showDependencies is true
NoOverlay ==
    [containerRect |-> NoRect, show |-> TRUE, active |-> NoTicket, activeRect |-> NoRect,
     layout |-> [pitch |-> 0, rows |-> <<>>]]

InitStore ==
    /\ sprints = seed.sprints
    /\ developers = seed.developers
    /\ features = seed.features
    /\ tickets = seed.tickets
    /\ currentSprint = seed.currentSprintId
    /\ ticketBaseUrl = seed.ticketBaseUrl
    /\ persisted = defaultData
    /\ keyboardMove = NoKeyboardMove
    /\ liveAnnouncement = NoAnnouncement
    /\ notices = <<>>
    /\ activeTicketId = NoTicket
    /\ error = Null
    /\ registry = NoRegistry
    /\ overlay = NoOverlay
    /\ nextTicketId = 2

Init == InitStore /\ calc = NoCalc

\* ----------------------------------------------------------------- inputs
RECURSIVE SeqsUpTo(_, _)
\* the sequences over S of length at most n
SeqsUpTo(S, n) ==
    IF n = 0 THEN {<<>>}
    ELSE LET shorter == SeqsUpTo(S, n - 1)
         IN shorter \cup {Append(q, x) : q \in shorter, x \in S}

NoRepeat(q) == \A i, j \in DOMAIN q : i # j => q[i] # q[j]

SprintChoices == SprintIds(sprints) \cup {BACKLOG_COLUMN_ID}
TrailInputs == SeqsUpTo(SprintChoices, MaxTrailLen)
StoryPointChoices == {5}
Modes == {"move", "extend"}
\* dependency lists as the forms offer them: distinct ids of other tickets
DependencyInputs(selfId) ==
    {q \in SeqsUpTo(TicketIds(tickets) \ {selfId}, MaxTickets) : NoRepeat(q)}

\* ---------------------------------------------------------- store actions
Persist(patch) == persisted' = commit(patch)

addTicket(partial) ==
    /\ nextTicketId <= MaxTickets
    /\ LET orderedSprintIds == orderedSprints(sprints)
           sprintIds == sortSprintTrail(
                            IF "sprintIds" \in DOMAIN partial THEN partial.sprintIds ELSE <<>>,
                            orderedSprintIds)
           ticket == [id |-> nextTicketId,
                      key |-> KeyOf(nextTicketId),
                      storyPoints |-> partial.storyPoints,
                      developerId |-> partial.developerId,
                      featureId |-> partial.featureId,
                      sprintIds |-> NonEmptyTrail(sprintIds),
                      dependencies |-> IF "dependencies" \in DOMAIN partial
                                       THEN partial.dependencies ELSE <<>>]
           nextTickets == Append(tickets, ticket)
       IN /\ Persist([tickets |-> nextTickets])
          /\ tickets' = nextTickets
    /\ nextTicketId' = nextTicketId + 1
    /\ UNCHANGED <<sprints, developers, features, currentSprint, ticketBaseUrl, uiVars, calc>>

updateTicket(id, patch) ==
    /\ LET nextTickets == updateTicketTickets(tickets, sprints, id, patch)
       IN /\ Persist([tickets |-> nextTickets])
          /\ tickets' = nextTickets
    /\ UNCHANGED <<sprints, developers, features, currentSprint, ticketBaseUrl, uiVars,
                   nextTicketId, calc>>

setSprintTrail(id, sprintIds) ==
    LET nextTrail == sortSprintTrail(sprintIds, orderedSprints(sprints))
    IN updateTicket(id, [sprintIds |-> NonEmptyTrail(nextTrail)])

\* deleteTicket without the dependency filter
deleteTicketKeepsDependencies(id) ==
    /\ LET nextTickets == SelectSeq(tickets, LAMBDA ticket : ticket.id # id)
       IN /\ Persist([tickets |-> nextTickets])
          /\ tickets' = nextTickets
    /\ UNCHANGED <<sprints, developers, features, currentSprint, ticketBaseUrl, uiVars,
                   nextTicketId, calc>>

deleteTicket(id) ==
    /\ LET strip(ticket) ==
               [ticket EXCEPT !.dependencies =
                   FilterSeq(ticket.dependencies, Range(ticket.dependencies) \ {id})]
           kept == SelectSeq(tickets, LAMBDA ticket : ticket.id # id)
           nextTickets == [i \in DOMAIN kept |-> strip(kept[i])]
       IN /\ Persist([tickets |-> nextTickets])
          /\ tickets' = nextTickets
    /\ UNCHANGED <<sprints, developers, features, currentSprint, ticketBaseUrl, uiVars,
                   nextTicketId, calc>>

moveTicketTo(id, toSprintId, developerId, mode) ==
    /\ LET nextTickets ==
               moveTicketToTickets(tickets, sprints, id, toSprintId, developerId, mode)
       IN /\ Persist([tickets |-> nextTickets])
          /\ tickets' = nextTickets
    /\ UNCHANGED <<sprints, developers, features, currentSprint, ticketBaseUrl, uiVars,
                   nextTicketId, calc>>

moveTicket(id, toSprintId, mode) ==
    /\ id \in TicketIds(tickets)
    /\ moveTicketTo(id, toSprintId, FindTicket(tickets, id).developerId, mode)

removeFeature(id) ==
    /\ LET nextFeatures == SelectSeq(features, LAMBDA feature : feature.id # id)
           nextTickets == SelectSeq(tickets, LAMBDA ticket : ticket.featureId # id)
       IN /\ Persist([features |-> nextFeatures, tickets |-> nextTickets])
          /\ features' = nextFeatures
          /\ tickets' = nextTickets
    /\ UNCHANGED <<sprints, developers, currentSprint, ticketBaseUrl, uiVars,
                   nextTicketId, calc>>

\* nanoid(): an id no developer of the store has
NewDeveloperIds == {"dev-n1", "dev-n2"} \ DeveloperIds(developers)

addDeveloper(name, newId) ==
    LET trimmed == trim(name)
    IN IF trimmed = ""
       THEN UNCHANGED vars
       ELSE /\ Len(developers) < MaxDevelopers
            /\ LET nextDevelopers == Append(developers, Developer(newId, trimmed))
               IN /\ Persist([developers |-> nextDevelopers])
                  /\ developers' = nextDevelopers
            /\ UNCHANGED <<sprints, features, tickets, currentSprint, ticketBaseUrl,
                           uiVars, nextTicketId, calc>>

updateDeveloper(id, patch) ==
    IF id = UNASSIGNED_DEVELOPER_ID
    THEN UNCHANGED vars
    ELSE /\ LET merged(developer) ==
                    [id |-> IF "id" \in DOMAIN patch THEN patch.id ELSE developer.id,
                     name |-> IF "name" \in DOMAIN patch /\ trim(patch.name) # ""
                              THEN trim(patch.name) ELSE developer.name]
                nextDevelopers ==
                    [i \in DOMAIN developers |->
                        IF developers[i].id = id THEN merged(developers[i])
                        ELSE developers[i]]
            IN /\ Persist([developers |-> nextDevelopers])
               /\ developers' = nextDevelopers
         /\ UNCHANGED <<sprints, features, tickets, currentSprint, ticketBaseUrl,
                        uiVars, nextTicketId, calc>>

removeDeveloperOfAnyId(id) ==
    /\ LET nextDevelopers == SelectSeq(developers, LAMBDA developer : developer.id # id)
           reassign(ticket) ==
               IF ticket.developerId = id
               THEN [ticket EXCEPT !.developerId = UNASSIGNED_DEVELOPER_ID]
               ELSE ticket
           nextTickets == [i \in DOMAIN tickets |-> reassign(tickets[i])]
       IN /\ Persist([developers |-> nextDevelopers, tickets |-> nextTickets])
          /\ developers' = nextDevelopers
          /\ tickets' = nextTickets
    /\ UNCHANGED <<sprints, features, currentSprint, ticketBaseUrl, uiVars,
                   nextTicketId, calc>>

removeDeveloper(id) ==
    IF id = UNASSIGNED_DEVELOPER_ID
    THEN UNCHANGED vars
    ELSE /\ LET nextDevelopers == SelectSeq(developers, LAMBDA developer : developer.id # id)
                reassign(ticket) ==
                    IF ticket.developerId = id
                    THEN [ticket EXCEPT !.developerId = UNASSIGNED_DEVELOPER_ID]
                    ELSE ticket
                nextTickets == [i \in DOMAIN tickets |-> reassign(tickets[i])]
            IN /\ Persist([developers |-> nextDevelopers, tickets |-> nextTickets])
               /\ developers' = nextDevelopers
               /\ tickets' = nextTickets
         /\ UNCHANGED <<sprints, features, currentSprint, ticketBaseUrl, uiVars,
                        nextTicketId, calc>>

MaxId(ts) == IF ts = <<>> THEN 0 ELSE CHOOSE m \in TicketIds(ts) : \A n \in TicketIds(ts) : n <= m

\* what replaceState persists and sets
replaceStateSets(data) ==
    /\ LET normalized == normalizeState(data)
       IN /\ persisted' = normalized
          /\ sprints' = normalized.sprints
          /\ developers' = normalized.developers
          /\ features' = normalized.features
          /\ tickets' = normalized.tickets
          /\ currentSprint' = normalized.currentSprintId
          /\ ticketBaseUrl' = normalized.ticketBaseUrl
    \* ids handed out later differ from every id of the imported tickets
    /\ nextTicketId' = IF MaxId(data.tickets) >= nextTicketId
                       THEN MaxId(data.tickets) + 1 ELSE nextTicketId

replaceState(data) ==
    /\ replaceStateSets(data)
    /\ UNCHANGED <<uiVars, calc>>

resetPlanner ==
    /\ LET seeded == normalizeState(loadPlannerState)
           cleared == [seeded EXCEPT
                          !.developers = <<Developer(UNASSIGNED_DEVELOPER_ID, "Unassigned")>>,
                          !.features = <<>>,
                          !.tickets = <<>>]
       IN /\ persisted' = cleared
          /\ sprints' = cleared.sprints
          /\ developers' = cleared.developers
          /\ features' = cleared.features
          /\ tickets' = cleared.tickets
          /\ currentSprint' = cleared.currentSprintId
          /\ ticketBaseUrl' = cleared.ticketBaseUrl
    /\ notices' = <<>>
    /\ keyboardMove' = NoKeyboardMove
    /\ liveAnnouncement' = NoAnnouncement
    /\ UNCHANGED <<activeTicketId, nextTicketId, calc, error, registry, overlay>>

\* ------------------------------------------------- announcements, notices
KeysOf(ids, ts) == [i \in DOMAIN ids |-> FindTicket(ts, ids[i]).key]

MoveBlockedMessage(blockers, ts) ==
    [kind |-> "Move blocked by", keys |-> KeysOf(blockers, ts)]
\* of a message the model keeps its kind and the ticket keys it names
ScheduledMessage(key) == [kind |-> "scheduled for", key |-> key]
UpdateBlockedMessage(key, blockers, ts) ==
    [kind |-> "Update blocked", key |-> key, keys |-> KeysOf(blockers, ts)]
UpdatedMessage(key) == [kind |-> "updated", key |-> key]

pushNotice(message, tone) == notices' = Append(notices, [message |-> message, tone |-> tone])

dismissNotice(i) ==
    /\ i \in DOMAIN notices
    /\ notices' = SubSeq(notices, 1, i - 1) \o SubSeq(notices, i + 1, Len(notices))
    /\ UNCHANGED <<dataVars, persisted, keyboardMove, liveAnnouncement, activeTicketId,
                   nextTicketId, calc, error, registry, overlay>>

\* ---------------------------------------------------- keyboard relocation
beginKeyboardMove(ticketId) ==
    /\ ticketId \in TicketIds(tickets)
    /\ keyboardMove' = [ticketId |-> ticketId,
                        targetDeveloperId |-> FindTicket(tickets, ticketId).developerId,
                        targetSprintId |-> currentSprintId(FindTicket(tickets, ticketId))]
    /\ UNCHANGED <<dataVars, persisted, liveAnnouncement, notices, activeTicketId,
                   nextTicketId, calc, error, registry, overlay>>

moveKeyboardTarget(axis, delta) ==
    /\ keyboardMove # NoKeyboardMove
    /\ IF axis = "row"
       THEN LET ids == [i \in DOMAIN developers |-> developers[i].id]
                idx == IndexOf(ids, keyboardMove.targetDeveloperId)
                nextIdx == clampIndex(idx + delta, Len(ids))
            IN keyboardMove' =
                   [keyboardMove EXCEPT !.targetDeveloperId =
                       IF nextIdx + 1 \in DOMAIN ids THEN ids[nextIdx + 1] ELSE @]
       ELSE LET augmented == <<BACKLOG_COLUMN_ID>> \o orderedSprints(sprints)
                idx == IndexOf(augmented, keyboardMove.targetSprintId)
                nextIdx == clampIndex(idx + delta, Len(augmented))
            IN keyboardMove' =
                   [keyboardMove EXCEPT !.targetSprintId =
                       IF nextIdx + 1 \in DOMAIN augmented THEN augmented[nextIdx + 1] ELSE @]
    /\ UNCHANGED <<dataVars, persisted, liveAnnouncement, notices, activeTicketId,
                   nextTicketId, calc, error, registry, overlay>>

\* commitKeyboardMove ending the relocation when the move is blocked
commitKeyboardMoveEndsWhenBlocked(mode) ==
    /\ keyboardMove # NoKeyboardMove
    /\ LET ticketId == keyboardMove.ticketId
           targetSprintId == keyboardMove.targetSprintId
           targetDeveloperId == keyboardMove.targetDeveloperId
           check == storeIsMoveBlockedByDeps(tickets, sprints, ticketId, targetSprintId)
       IN IF check.blocked
          THEN /\ liveAnnouncement' = MoveBlockedMessage(check.blockers, tickets)
               /\ keyboardMove' = NoKeyboardMove
               /\ UNCHANGED <<dataVars, persisted>>
          ELSE LET actualMode == IF targetSprintId = BACKLOG_COLUMN_ID THEN "move" ELSE mode
                   nextTickets == moveTicketToTickets(tickets, sprints, ticketId,
                                                      targetSprintId, targetDeveloperId,
                                                      actualMode)
               IN /\ Persist([tickets |-> nextTickets])
                  /\ tickets' = nextTickets
                  /\ liveAnnouncement' =
                         IF ticketId \in TicketIds(nextTickets)
                         THEN ScheduledMessage(FindTicket(nextTickets, ticketId).key)
                         ELSE liveAnnouncement
                  /\ keyboardMove' = NoKeyboardMove
                  /\ UNCHANGED <<sprints, developers, features, currentSprint, ticketBaseUrl>>
    /\ UNCHANGED <<notices, activeTicketId, nextTicketId, calc, error, registry, overlay>>

commitKeyboardMove(mode) ==
    /\ keyboardMove # NoKeyboardMove
    /\ LET ticketId == keyboardMove.ticketId
           targetSprintId == keyboardMove.targetSprintId
           targetDeveloperId == keyboardMove.targetDeveloperId
           check == storeIsMoveBlockedByDeps(tickets, sprints, ticketId, targetSprintId)
       IN IF check.blocked
          THEN /\ liveAnnouncement' = MoveBlockedMessage(check.blockers, tickets)
               /\ UNCHANGED <<dataVars, persisted, keyboardMove>>
          ELSE LET actualMode == IF targetSprintId = BACKLOG_COLUMN_ID THEN "move" ELSE mode
                   nextTickets == moveTicketToTickets(tickets, sprints, ticketId,
                                                      targetSprintId, targetDeveloperId,
                                                      actualMode)
               IN /\ Persist([tickets |-> nextTickets])
                  /\ tickets' = nextTickets
                  /\ liveAnnouncement' =
                         IF ticketId \in TicketIds(nextTickets)
                         THEN ScheduledMessage(FindTicket(nextTickets, ticketId).key)
                         ELSE liveAnnouncement
                  /\ keyboardMove' = NoKeyboardMove
                  /\ UNCHANGED <<sprints, developers, features, currentSprint, ticketBaseUrl>>
    /\ UNCHANGED <<notices, activeTicketId, nextTicketId, calc, error, registry, overlay>>

cancelKeyboardMove ==
    /\ keyboardMove' = NoKeyboardMove
    /\ UNCHANGED <<dataVars, persisted, liveAnnouncement, notices, activeTicketId,
                   nextTicketId, calc, error, registry, overlay>>

\* ------------------------------------------------------------ App.tsx drag
handleDragStart(ticketId) ==
    /\ activeTicketId = NoTicket
    /\ ticketId \in TicketIds(tickets)
    /\ keyboardMove' = NoKeyboardMove
    /\ activeTicketId' = ticketId
    /\ UNCHANGED <<dataVars, persisted, liveAnnouncement, notices, nextTicketId, calc, error, registry, overlay>>

\* onDragCancel, and a drag that ends over no drop target
resetDragState ==
    /\ activeTicketId # NoTicket
    /\ activeTicketId' = NoTicket
    /\ UNCHANGED <<dataVars, persisted, keyboardMove, liveAnnouncement, notices,
                   nextTicketId, calc, error, registry, overlay>>

handleDragEnd(sprintId, developerId, isExtend) ==
    /\ activeTicketId # NoTicket
    /\ LET ticketId == activeTicketId
           check == storeIsMoveBlockedByDeps(tickets, sprints, ticketId, sprintId)
       IN IF check.blocked
          THEN /\ Len(notices) < MaxNotices
               /\ liveAnnouncement' = MoveBlockedMessage(check.blockers, tickets)
               /\ pushNotice(MoveBlockedMessage(check.blockers, tickets), "error")
               /\ UNCHANGED <<dataVars, persisted>>
          ELSE LET targetMode == IF sprintId = BACKLOG_COLUMN_ID THEN "move"
                                 ELSE IF isExtend THEN "extend" ELSE "move"
                   nextTickets == moveTicketToTickets(tickets, sprints, ticketId, sprintId,
                                                      developerId, targetMode)
               IN /\ Persist([tickets |-> nextTickets])
                  /\ tickets' = nextTickets
                  /\ liveAnnouncement' =
                         IF ticketId \in TicketIds(tickets)
                            /\ developerId \in DeveloperIds(developers)
                         THEN ScheduledMessage(FindTicket(tickets, ticketId).key)
                         ELSE liveAnnouncement
                  /\ UNCHANGED <<sprints, developers, features, currentSprint,
                                 ticketBaseUrl, notices>>
    /\ activeTicketId' = NoTicket
    /\ UNCHANGED <<keyboardMove, nextTicketId, calc, error, registry, overlay>>

\* ------------------------------------------------------- ticket edit modal
\* normalizeSprintTrail of the modal: Backlog first, the real sprints sorted
normalizeSprintTrail(trail, orderedSprintIds) ==
    LET unique == Dedupe(trail, {})
        hasBacklog == BACKLOG_COLUMN_ID \in Range(unique)
        sprintOnly == FilterSeq(unique, Range(unique) \ {BACKLOG_COLUMN_ID})
        sorted == sortSprintTrail(sprintOnly, orderedSprintIds)
        composed == IF hasBacklog THEN <<BACKLOG_COLUMN_ID>> \o sorted ELSE sorted
    IN NonEmptyTrail(composed)

\* toggleSprint of the form: the last sprint cannot be toggled off
toggleSprint(sprintTrail, id, orderedSprintIds) ==
    IF id \in Range(sprintTrail)
    THEN IF Cardinality(Range(sprintTrail)) = 1 THEN sprintTrail
         ELSE normalizeSprintTrail(FilterSeq(sprintTrail, Range(sprintTrail) \ {id}),
                                   orderedSprintIds)
    ELSE normalizeSprintTrail(Append(sprintTrail, id), orderedSprintIds)

\* the trails the form holds when it is submitted: the trail it was opened
\* with, or that trail with one sprint option toggled
FormTrails(ticket) ==
    LET orderedSprintIds == orderedSprints(sprints)
        opened == normalizeSprintTrail(ticket.sprintIds, orderedSprintIds)
    IN {opened} \cup {toggleSprint(opened, id, orderedSprintIds) : id \in SprintChoices}

\* the dependency lists the form can hold for a chosen feature
FormDependencies(ticketId, featureId) ==
    {q \in DependencyInputs(ticketId) :
        \A i \in DOMAIN q : FindTicket(tickets, q[i]).featureId = featureId}

handleSave(ticketId, updates) ==
    /\ ticketId \in TicketIds(tickets)
    /\ LET ticket == FindTicket(tickets, ticketId)
           nextTicket == [f \in DOMAIN ticket |->
                             IF f \in DOMAIN updates THEN updates[f] ELSE ticket[f]]
           targetSprintId == currentSprintId(nextTicket)
           getTicket == [id \in TicketIds(tickets) |->
                            IF id = nextTicket.id THEN nextTicket ELSE FindTicket(tickets, id)]
           check == isMoveBlockedByDeps(nextTicket, targetSprintId, getTicket,
                                        orderedSprints(sprints))
       IN IF check.blocked
          THEN /\ Len(notices) < MaxNotices
               /\ liveAnnouncement' = UpdateBlockedMessage(nextTicket.key, check.blockers, tickets)
               /\ pushNotice(UpdateBlockedMessage(nextTicket.key, check.blockers, tickets),
                             "error")
               /\ UNCHANGED <<dataVars, persisted>>
          ELSE LET nextTickets == updateTicketTickets(tickets, sprints, ticket.id, updates)
               IN /\ Persist([tickets |-> nextTickets])
                  /\ tickets' = nextTickets
                  /\ liveAnnouncement' = UpdatedMessage(ticket.key)
                  /\ UNCHANGED <<sprints, developers, features, currentSprint,
                                 ticketBaseUrl, notices>>
    /\ UNCHANGED <<keyboardMove, activeTicketId, nextTicketId, calc, error, registry, overlay>>

\* ------------------------------------------------------ imported snapshots
Snapshot(ss, ds, fs, ts, current) ==
    [sprints |-> ss, developers |-> ds, features |-> fs, tickets |-> ts,
     currentSprintId |-> current, ticketBaseUrl |-> Null]

\* tickets with unknown references, repeated and unsorted sprint ids, a
\* self-dependency and a dependency on an absent ticket
StrayTickets ==
    <<Ticket(1, 5, "dev-ghost", "F9", <<"S2", "S9", "S1", "S2">>, <<1, 2, 7>>),
      Ticket(2, 5, "dev-alice", "F1", <<"S9">>, <<1>>)>>
\* a ticket with an empty trail and one scheduled from the backlog
BareTickets ==
    <<Ticket(1, 5, "dev-alice", "F1", <<>>, <<>>),
      Ticket(2, 5, UNASSIGNED_DEVELOPER_ID, "F1", <<BACKLOG_COLUMN_ID, "S2">>, <<1>>)>>
ReversedSprints == <<Sprint("S2", 1), Sprint("S1", 2)>>
UnassignedLast == <<Developer("dev-alice", "Alice"),
                    Developer(UNASSIGNED_DEVELOPER_ID, "Unassigned")>>

ImportSnapshots ==
    {Snapshot(<<>>, <<>>, <<>>, <<>>, Null),
     Snapshot(ReversedSprints, UnassignedLast, <<Feature("F1", "Unified Billing")>>,
              StrayTickets, "S2"),
     Snapshot(<<>>, <<>>, <<>>, BareTickets, "S9"),
     Snapshot(ReversedSprints, <<>>, <<Feature("F1", "Unified Billing")>>,
              BareTickets, Null)}

\* ------------------------------------------------------------ next, spec
AddTicketInputs ==
    LET required == [storyPoints : StoryPointChoices,
                     developerId : DeveloperIds(developers),
                     featureId : FeatureIds(features)]
    IN required
       \cup {[storyPoints |-> r.storyPoints, developerId |-> r.developerId,
              featureId |-> r.featureId, sprintIds |-> t, dependencies |-> d] :
                r \in required, t \in TrailInputs, d \in DependencyInputs(NoTicket)}

UpdatePatches(id) ==
    {[sprintIds |-> t] : t \in TrailInputs}
    \cup {[developerId |-> d] : d \in DeveloperIds(developers)}
    \cup {[dependencies |-> q] : q \in DependencyInputs(id)}
    \cup {[featureId |-> f] : f \in FeatureIds(features)}

\* what the form submits: every field; the sprint trail as toggled, the
\* dependency list as opened or with dependencies added, the other fields as
\* the form was opened with
SaveUpdates(id) ==
    LET ticket == FindTicket(tickets, id)
    IN {[storyPoints |-> ticket.storyPoints, developerId |-> ticket.developerId,
         featureId |-> ticket.featureId, sprintIds |-> t, dependencies |-> q] :
           t \in FormTrails(ticket),
           q \in {ticket.dependencies} \cup
                 {d \in FormDependencies(id, ticket.featureId) :
                     Range(ticket.dependencies) \subseteq Range(d)}}

StoreNext ==
    \/ \E partial \in AddTicketInputs : addTicket(partial)
    \/ \E id \in TicketIds(tickets) : \E patch \in UpdatePatches(id) : updateTicket(id, patch)
    \/ \E id \in TicketIds(tickets) : \E t \in TrailInputs : setSprintTrail(id, t)
    \/ \E id \in TicketIds(tickets) : deleteTicket(id)
    \/ \E id \in TicketIds(tickets) : \E to \in SprintChoices : \E mode \in Modes :
          moveTicket(id, to, mode)
    \/ \E id \in TicketIds(tickets) : \E to \in SprintChoices :
          \E dev \in DeveloperIds(developers) : \E mode \in Modes :
             moveTicketTo(id, to, dev, mode)
    \/ \E id \in FeatureIds(features) : removeFeature(id)
    \/ \E id \in DeveloperIds(developers) : removeDeveloper(id)
    \/ \E data \in ImportSnapshots : replaceState(data)
    \/ resetPlanner

KeyboardNext ==
    \/ \E id \in TicketIds(tickets) : beginKeyboardMove(id)
    \/ \E axis \in {"row", "column"} : \E delta \in {-1, 1} : moveKeyboardTarget(axis, delta)
    \/ \E mode \in Modes : commitKeyboardMove(mode)
    \/ cancelKeyboardMove

Next == StoreNext

Spec == Init /\ [][Next]_vars

\* a stored plan the store starts from: the seed ticket and a second ticket
\* depending on it, as addTicket leaves it
boardData ==
    [seed EXCEPT !.tickets =
        Append(seed.tickets, Ticket(2, 5, "dev-alice", "F1", <<"S2">>, <<1>>))]

InitBoard ==
    /\ sprints = boardData.sprints
    /\ developers = boardData.developers
    /\ features = boardData.features
    /\ tickets = boardData.tickets
    /\ currentSprint = boardData.currentSprintId
    /\ ticketBaseUrl = boardData.ticketBaseUrl
    /\ persisted = boardData
    /\ keyboardMove = NoKeyboardMove
    /\ liveAnnouncement = NoAnnouncement
    /\ notices = <<>>
    /\ activeTicketId = NoTicket
    /\ error = Null
    /\ registry = NoRegistry
    /\ overlay = NoOverlay
    /\ nextTicketId = 3
    /\ calc = NoCalc

\* a drag gesture runs to its end before another handler is served
DragIdle == activeTicketId = NoTicket

HandlersNext ==
    \/ DragIdle /\ KeyboardNext
    \/ DragIdle /\ \E id \in TicketIds(tickets) : handleDragStart(id)
    \/ resetDragState
    \/ \E to \in SprintChoices : \E dev \in DeveloperIds(developers) :
          \E isExtend \in BOOLEAN : handleDragEnd(to, dev, isExtend)
    \/ DragIdle /\ \E id \in TicketIds(tickets) : \E updates \in SaveUpdates(id) :
          handleSave(id, updates)
    \/ DragIdle /\ \E i \in DOMAIN notices : dismissNotice(i)

SpecHandlers == InitBoard /\ [][HandlersNext]_vars

MovesNext ==
    \/ \E id \in TicketIds(tickets) : \E to \in SprintChoices : \E mode \in Modes :
          moveTicket(id, to, mode)
    \/ \E id \in TicketIds(tickets) : \E to \in SprintChoices :
          \E dev \in DeveloperIds(developers) : \E mode \in Modes :
             moveTicketTo(id, to, dev, mode)
    \/ KeyboardNext

SpecMoves == InitBoard /\ [][MovesNext]_vars

\* the names typed into the developer form, and the patches of a developer row
DeveloperNameInputs == {"Bob", " Bob ", "  ", ""}
DeveloperPatches ==
    {[name |-> n] : n \in DeveloperNameInputs} \cup {[id |-> "dev-b"]}

\* the developer manager's operations, imports and the reset
DevelopersNext ==
    \/ \E name \in DeveloperNameInputs : \E newId \in NewDeveloperIds :
          addDeveloper(name, newId)
    \/ \E id \in DeveloperIds(developers) : \E patch \in DeveloperPatches :
          updateDeveloper(id, patch)
    \/ \E id \in DeveloperIds(developers) : removeDeveloper(id)
    \/ \E data \in ImportSnapshots : replaceState(data)
    \/ resetPlanner

SpecDevelopers == Init /\ [][DevelopersNext]_vars

\* ------------------------------------------- DataManagerModal.tsx (import)
\* JSON.parse results: a value is a record with its type; an array has its
\* items, an object its fields
JsonArray(items) == [type |-> "array", items |-> items]
JsonObject(fields) == [type |-> "object", fields |-> fields]
JsonOf(data) ==
    JsonObject([sprints |-> JsonArray(data.sprints),
                developers |-> JsonArray(data.developers),
                features |-> JsonArray(data.features),
                tickets |-> JsonArray(data.tickets),
                currentSprintId |-> data.currentSprintId,
                ticketBaseUrl |-> data.ticketBaseUrl])
Collections == {"sprints", "developers", "features", "tickets"}
Without(value, name) ==
    JsonObject([f \in DOMAIN value.fields \ {name} |-> value.fields[f]])
WithString(value, name) ==
    JsonObject([value.fields EXCEPT ![name] = [type |-> "string"]])

\* a file whose first ticket has neither sprintIds nor dependencies
IllTypedTickets ==
    Snapshot(ReversedSprints, UnassignedLast, <<Feature("F1", "Unified Billing")>>,
             <<[id |-> 1, key |-> KeyOf(1), storyPoints |-> 5,
                developerId |-> "dev-alice", featureId |-> "F1"]>>, "S2")

\* the texts handed to importFromString
ImportTexts ==
    {[parses |-> FALSE]}
    \cup {[parses |-> TRUE, parsed |-> [type |-> t]] :
             t \in {"null", "number", "string", "boolean"}}
    \cup {[parses |-> TRUE, parsed |-> JsonArray(<<>>)],
          [parses |-> TRUE, parsed |-> JsonObject([currentSprintId |-> Null])],
          [parses |-> TRUE, parsed |-> JsonOf(IllTypedTickets)]}
    \cup {[parses |-> TRUE, parsed |-> JsonOf(data)] : data \in ImportSnapshots}
    \cup {[parses |-> TRUE, parsed |-> Without(JsonOf(data), name)] :
             data \in ImportSnapshots, name \in Collections}
    \cup {[parses |-> TRUE, parsed |-> WithString(JsonOf(data), name)] :
             data \in ImportSnapshots, name \in Collections}

validatePlannerData(data) ==
    IF data.type \notin {"object", "array"} THEN FALSE
    ELSE \A name \in Collections :
            /\ data.type = "object"
            /\ name \in DOMAIN data.fields
            /\ data.fields[name].type = "array"

\* parsed, read as PlannerData once validatePlannerData has passed
PlannerDataOf(parsed) ==
    [sprints |-> parsed.fields.sprints.items,
     developers |-> parsed.fields.developers.items,
     features |-> parsed.fields.features.items,
     tickets |-> parsed.fields.tickets.items,
     currentSprintId |-> parsed.fields.currentSprintId,
     ticketBaseUrl |-> parsed.fields.ticketBaseUrl]

\* ticket.sprintIds.filter and ticket.dependencies.filter throw a TypeError on
\* a ticket without these arrays
normalizeStateThrows(data) ==
    \E i \in DOMAIN data.tickets :
        ~({"sprintIds", "dependencies"} \subseteq DOMAIN data.tickets[i])

rejectImportClearsTickets(message) ==
    /\ error' = message
    /\ tickets' = <<>>
    /\ UNCHANGED <<sprints, developers, features, currentSprint, ticketBaseUrl,
                   persisted, keyboardMove, liveAnnouncement, notices,
                   activeTicketId, nextTicketId, calc, registry, overlay>>

\* setError(message) and return
rejectImport(message) ==
    /\ error' = message
    /\ UNCHANGED <<dataVars, persisted, keyboardMove, liveAnnouncement, notices,
                   activeTicketId, nextTicketId, calc, registry, overlay>>

importFromString(raw) ==
    IF ~raw.parses
    THEN rejectImport("Invalid JSON. Update the text and try again.")
    ELSE IF ~validatePlannerData(raw.parsed)
    THEN rejectImport("JSON must include sprints, developers, features, and tickets arrays.")
    ELSE IF normalizeStateThrows(PlannerDataOf(raw.parsed))
    THEN rejectImport("Invalid JSON. Update the text and try again.")
    ELSE /\ replaceStateSets(PlannerDataOf(raw.parsed))
         /\ liveAnnouncement' = [kind |-> "Planner data imported."]
         /\ error' = Null
         /\ UNCHANGED <<keyboardMove, notices, activeTicketId, calc, registry, overlay>>

\* imports, between operations that change the plan
ImportNext ==
    \/ \E raw \in ImportTexts : importFromString(raw)
    \/ \E id \in TicketIds(tickets) : deleteTicket(id)
    \/ \E id \in FeatureIds(features) : removeFeature(id)
    \/ \E id \in DeveloperIds(developers) : removeDeveloper(id)
    \/ \E id \in TicketIds(tickets) : \E to \in SprintChoices : \E mode \in Modes :
          moveTicket(id, to, mode)

SpecImport == Init /\ [][ImportNext]_vars

\* a normalized plan whose second ticket depends on a ticket of another feature
planData ==
    normalizeState(
        [seed EXCEPT !.tickets =
            <<Ticket(1, 5, "dev-alice", "F1", <<"S1">>, <<>>),
              Ticket(2, 5, "dev-alice", "F2", <<"S2">>, <<1>>)>>])

InitPlan ==
    /\ sprints = planData.sprints
    /\ developers = planData.developers
    /\ features = planData.features
    /\ tickets = planData.tickets
    /\ currentSprint = planData.currentSprintId
    /\ ticketBaseUrl = planData.ticketBaseUrl
    /\ persisted = planData
    /\ keyboardMove = NoKeyboardMove
    /\ liveAnnouncement = NoAnnouncement
    /\ notices = <<>>
    /\ activeTicketId = NoTicket
    /\ error = Null
    /\ registry = NoRegistry
    /\ overlay = NoOverlay
    /\ nextTicketId = 3
    /\ calc = NoCalc

\* the operations that remove tickets, developers or features, relocate
\* tickets or replace the plan
RemovalsNext ==
    \/ \E id \in TicketIds(tickets) : deleteTicket(id)
    \/ \E id \in FeatureIds(features) : removeFeature(id)
    \/ \E id \in DeveloperIds(developers) : removeDeveloper(id)
    \/ \E id \in TicketIds(tickets) : \E to \in SprintChoices : \E mode \in Modes :
          moveTicket(id, to, mode)
    \/ \E id \in TicketIds(tickets) : \E to \in SprintChoices :
          \E dev \in DeveloperIds(developers) : \E mode \in Modes :
             moveTicketTo(id, to, dev, mode)
    \/ KeyboardNext
    \/ \E data \in ImportSnapshots : replaceState(data)
    \/ resetPlanner

SpecRemovals == InitPlan /\ [][RemovalsNext]_vars

\* ------------------------------------------- the calc helpers on their own
CalcSprintIds == {"S1", "S2", "S3"}
CalcOrders == {<<"S1", "S2", "S3">>, <<"S3", "S1">>, <<>>}
CalcTrails == {<<"S1">>, <<"S3">>, <<BACKLOG_COLUMN_ID>>, <<"S1", "S2">>}
\* the moved ticket is 0; tickets 1 and 2 resolve, ticket 3 does not
CalcDependencyLists == SeqsUpTo({1, 2, 3}, MaxCalcDeps)

SortInputs ==
    [op : {"sortInput"},
     T : SeqsUpTo(CalcSprintIds \cup {BACKLOG_COLUMN_ID}, MaxCalcLen),
     O : CalcOrders]

BlockedInputs ==
    [op : {"blockedInput"},
     deps : CalcDependencyLists,
     trail1 : CalcTrails,
     trail2 : CalcTrails,
     target : CalcSprintIds \cup {BACKLOG_COLUMN_ID},
     O : CalcOrders \ {<<>>}]

CalcTicket(in) == Ticket(0, 3, "dev-a", "feature-a", <<"S1">>, in.deps)
CalcOthers(in) ==
    <<Ticket(1, 3, "dev-a", "feature-a", in.trail1, <<>>),
      Ticket(2, 3, "dev-a", "feature-a", in.trail2, <<>>)>>
CalcSprints(in) == [i \in DOMAIN in.O |-> Sprint(in.O[i], i)]

InitCalc ==
    /\ InitStore
    /\ calc \in SortInputs \cup BlockedInputs

applySortSprintTrail ==
    /\ calc.op = "sortInput"
    /\ LET out == sortSprintTrail(calc.T, calc.O)
       IN calc' = [op |-> "sorted", T |-> calc.T, O |-> calc.O, out |-> out,
                   again |-> sortSprintTrail(out, calc.O)]
    /\ UNCHANGED <<dataVars, persisted, uiVars, nextTicketId>>

applyIsMoveBlockedByDeps ==
    /\ calc.op = "blockedInput"
    /\ calc' = [op |-> "checked", in |-> calc,
                result |-> isMoveBlockedByDeps(CalcTicket(calc), calc.target,
                                               TicketLookup(CalcOthers(calc)), calc.O)]
    /\ UNCHANGED <<dataVars, persisted, uiVars, nextTicketId>>

applyStoreIsMoveBlockedByDeps(ticketId) ==
    /\ calc.op = "blockedInput"
    /\ calc' = [op |-> "storeChecked", in |-> calc, ticketId |-> ticketId,
                result |-> storeIsMoveBlockedByDeps(
                               <<CalcTicket(calc)>> \o CalcOthers(calc),
                               CalcSprints(calc), ticketId, calc.target)]
    /\ UNCHANGED <<dataVars, persisted, uiVars, nextTicketId>>

CalcNext ==
    \/ applySortSprintTrail
    \/ applyIsMoveBlockedByDeps
    \/ \E ticketId \in {0, 9} : applyStoreIsMoveBlockedByDeps(ticketId)

SpecCalc == InitCalc /\ [][CalcNext]_vars

\* ================================================================== claims
\* the order index of a sprint id in an ordered id list, -1 for an id that is
\* not a sprint (the Backlog): a is ordered after b
OrderedAfter(a, b, O) ==
    /\ \E i \in DOMAIN O : O[i] = a
    /\ \/ \A j \in DOMAIN O : O[j] # b
       \/ \E i, j \in DOMAIN O :
             /\ O[i] = a /\ \A k \in 1..(i - 1) : O[k] # a
             /\ O[j] = b /\ \A k \in 1..(j - 1) : O[k] # b
             /\ i > j

LastOf(q) == q[Len(q)]

\* a resolvable dependency of the ticket has its current sprint after the target
C1_DependencyBlocks(id, target) ==
    /\ target # BACKLOG_COLUMN_ID
    /\ \E d \in Range(FindTicket(tickets, id).dependencies) :
          /\ d \in TicketIds(tickets)
          /\ OrderedAfter(LastOf(FindTicket(tickets, d).sprintIds), target,
                          orderedSprints(sprints))

\* C1 (as the claim states it): moveTicket and moveTicketTo reject a blocked
\* move: when a resolvable dependency of the moved ticket has its current
\* sprint ordered after the non-Backlog target, the call leaves the tickets and
\* the persisted snapshot unchanged.
C1_StoreMoveRejectsBlockedMove ==
    [][\A id \in TicketIds(tickets) : \A to \in SprintChoices :
          \A dev \in DeveloperIds(developers) : \A mode \in Modes :
             (C1_DependencyBlocks(id, to) /\ moveTicketTo(id, to, dev, mode))
                => UNCHANGED <<tickets, persisted>>]_vars

\* C2: for a non-Backlog target, isMoveBlockedByDeps returns as blockers exactly
\* the dependency ids, in dependency-list order, that resolve through the lookup
\* and whose current sprint (last trail element) is ordered strictly after the
\* target; blocked is true exactly when blockers is non-empty.
C2_BlockersAreTheLaterDependencies ==
    (calc.op = "checked" /\ calc.in.target # BACKLOG_COLUMN_ID) =>
        LET in == calc.in
            others == CalcOthers(in)
            isBlocker(depId) ==
                \E i \in DOMAIN others :
                    /\ others[i].id = depId
                    /\ OrderedAfter(others[i].sprintIds[Len(others[i].sprintIds)],
                                    in.target, in.O)
        IN /\ calc.result.blockers = SelectSeq(in.deps, isBlocker)
           /\ calc.result.blocked = (calc.result.blockers # <<>>)

C2_Witness ==
    /\ calc.op = "checked"
    /\ calc.in.deps = <<2, 1>>
    /\ calc.in.trail1 = <<"S3">>
    /\ calc.in.trail2 = <<"S1", "S2">>
    /\ calc.in.target = "S1"
    /\ calc.in.O = <<"S1", "S2", "S3">>
    /\ calc.result = [blocked |-> TRUE, blockers |-> <<2, 1>>]

\* C3: with the Backlog as target, isMoveBlockedByDeps returns blocked = FALSE
\* and no blockers for every ticket and every state of its dependencies, in the
\* pure helper and in the store's isMoveBlockedByDeps(ticketId, targetSprintId).
C3_BacklogIsNeverBlocked ==
    (calc.op \in {"checked", "storeChecked"} /\ calc.in.target = BACKLOG_COLUMN_ID) =>
        calc.result = [blocked |-> FALSE, blockers |-> <<>>]

C3_Witness ==
    /\ calc.op = "storeChecked"
    /\ calc.ticketId = 0
    /\ calc.in.target = BACKLOG_COLUMN_ID
    /\ calc.in.deps = <<1, 2>>
    /\ calc.in.trail1 = <<"S3">>
    /\ calc.in.trail2 = <<"S3">>
    /\ calc.in.O = <<"S1", "S2", "S3">>
    /\ ~calc.result.blocked

\* the check commitKeyboardMove and handleDragEnd ask of the store
C4_MoveCheck(ticketId, targetSprintId) ==
    storeIsMoveBlockedByDeps(tickets, sprints, ticketId, targetSprintId)

\* the check handleSave makes on the ticket as the form would leave it
C4_SaveCheck(ticketId, updates) ==
    LET ticket == FindTicket(tickets, ticketId)
        nextTicket == [f \in DOMAIN ticket |->
                          IF f \in DOMAIN updates THEN updates[f] ELSE ticket[f]]
        getTicket == [id \in TicketIds(tickets) |->
                         IF id = ticketId THEN nextTicket ELSE FindTicket(tickets, id)]
    IN isMoveBlockedByDeps(nextTicket, LastOf(nextTicket.sprintIds), getTicket,
                           orderedSprints(sprints))

C4_Keyboard ==
    (/\ keyboardMove # NoKeyboardMove
     /\ C4_MoveCheck(keyboardMove.ticketId, keyboardMove.targetSprintId).blocked
     /\ \E mode \in Modes : commitKeyboardMove(mode))
    => /\ UNCHANGED <<dataVars, persisted, keyboardMove>>
       /\ liveAnnouncement'.kind = "Move blocked by"
       /\ liveAnnouncement'.keys =
              KeysOf(C4_MoveCheck(keyboardMove.ticketId,
                                  keyboardMove.targetSprintId).blockers, tickets)

C4_Drag ==
    activeTicketId # NoTicket =>
        \A to \in SprintChoices :
            (/\ C4_MoveCheck(activeTicketId, to).blocked
             /\ \E dev \in DeveloperIds(developers) : \E isExtend \in BOOLEAN :
                   handleDragEnd(to, dev, isExtend))
            => /\ UNCHANGED <<dataVars, persisted>>
               /\ liveAnnouncement'.kind = "Move blocked by"
               /\ liveAnnouncement'.keys =
                      KeysOf(C4_MoveCheck(activeTicketId, to).blockers, tickets)
               /\ Len(notices') = Len(notices) + 1
               /\ LastOf(notices').tone = "error"
               /\ LastOf(notices').message.keys =
                      KeysOf(C4_MoveCheck(activeTicketId, to).blockers, tickets)

C4_Save ==
    UNCHANGED <<keyboardMove, activeTicketId>> =>
        \A id \in TicketIds(tickets) : \A updates \in SaveUpdates(id) :
            (C4_SaveCheck(id, updates).blocked /\ handleSave(id, updates))
            => /\ UNCHANGED <<dataVars, persisted>>
               /\ liveAnnouncement'.kind = "Update blocked"
               /\ liveAnnouncement'.keys =
                      KeysOf(C4_SaveCheck(id, updates).blockers, tickets)
               /\ Len(notices') = Len(notices) + 1
               /\ LastOf(notices').tone = "error"
               /\ LastOf(notices').message.keys =
                      KeysOf(C4_SaveCheck(id, updates).blockers, tickets)

C5_ProspectivelyBlocked(mode) ==
    LET ticketId == keyboardMove.ticketId
        actualMode == IF keyboardMove.targetSprintId = BACKLOG_COLUMN_ID THEN "move" ELSE mode
        next == moveTicketToTickets(tickets, sprints, ticketId, keyboardMove.targetSprintId,
                                    keyboardMove.targetDeveloperId, actualMode)
    IN /\ ticketId \in TicketIds(next)
       /\ LET moved == FindTicket(next, ticketId)
              resulting == LastOf(moved.sprintIds)
          IN /\ resulting # BACKLOG_COLUMN_ID
             /\ \E d \in Range(moved.dependencies) :
                   /\ d \in TicketIds(next)
                   /\ OrderedAfter(LastOf(FindTicket(next, d).sprintIds), resulting,
                                   orderedSprints(sprints))

\* C5 (as the claim states it): commitKeyboardMove, in mode move or extend,
\* rejects the relocation if and only if, in the trail the move would produce,
\* some resolvable dependency has its current sprint ordered after the ticket's
\* resulting current sprint (the last element of the resulting trail).
C5_CommitJudgesProspectiveState ==
    [][\A mode \in Modes :
          commitKeyboardMove(mode)
             => (UNCHANGED <<tickets, keyboardMove>> <=> C5_ProspectivelyBlocked(mode))]_vars

\* the ticket `id` is at [target] with the given developer, nothing else moved
C6_MovedTo(id, target, developerId) ==
    /\ Len(tickets') = Len(tickets)
    /\ \A i \in DOMAIN tickets :
          tickets'[i] = IF tickets[i].id = id
                        THEN [tickets[i] EXCEPT !.sprintIds = <<target>>,
                                                !.developerId = developerId]
                        ELSE tickets[i]
    /\ UNCHANGED <<sprints, developers, features>>

\* C6: moveTicketTo in mode 'move', or onto the Backlog in either mode
\* (commitKeyboardMove('extend') onto the Backlog included), sets the ticket's
\* trail to exactly [target] and its developerId to the given developer; every
\* other ticket, and the sprints, developers and features, stay as they were.
C6_MoveReplacesTrail ==
    [][/\ \A id \in TicketIds(tickets) : \A to \in SprintChoices :
            \A dev \in DeveloperIds(developers) : \A mode \in Modes :
               ((mode = "move" \/ to = BACKLOG_COLUMN_ID) /\ moveTicketTo(id, to, dev, mode))
                  => C6_MovedTo(id, to, dev)
       /\ (/\ keyboardMove # NoKeyboardMove
           /\ keyboardMove.targetSprintId = BACKLOG_COLUMN_ID
           /\ commitKeyboardMove("extend"))
          => C6_MovedTo(keyboardMove.ticketId, BACKLOG_COLUMN_ID,
                        keyboardMove.targetDeveloperId)]_vars

C6_Witness ==
    /\ FindTicket(tickets, 2).sprintIds = <<BACKLOG_COLUMN_ID>>
    /\ FindTicket(tickets, 2).developerId = UNASSIGNED_DEVELOPER_ID
    /\ FindTicket(tickets, 1).sprintIds = <<"S1", "S2">>
    /\ liveAnnouncement = ScheduledMessage(KeyOf(2))
    /\ keyboardMove = NoKeyboardMove

\* the order field of the sprint with the given id
OrderOf(ss, id) == ss[CHOOSE i \in DOMAIN ss : ss[i].id = id].order

\* Backlog only in front, the sprints behind it by ascending order
InSprintOrder(trail, ss) ==
    /\ Range(trail) \subseteq SprintIds(ss) \cup {BACKLOG_COLUMN_ID}
    /\ \A i, j \in DOMAIN trail :
          i < j => /\ trail[j] # BACKLOG_COLUMN_ID
                   /\ trail[i] # BACKLOG_COLUMN_ID
                         => OrderOf(ss, trail[i]) < OrderOf(ss, trail[j])

\* C7: moveTicketTo in mode 'extend' with a non-Backlog target sets the trail
\* to sortSprintTrail(old trail followed by target): the target and every id
\* of the old trail exactly once, in sprint order, nothing else; the ticket's
\* current sprint afterwards is the last element of that trail.
C7_ExtendMergesTarget ==
    [][\A id \in TicketIds(tickets) : \A to \in SprintChoices \ {BACKLOG_COLUMN_ID} :
          \A dev \in DeveloperIds(developers) :
             moveTicketTo(id, to, dev, "extend")
                => LET old == FindTicket(tickets, id).sprintIds
                       new == FindTicket(tickets', id).sprintIds
                   IN /\ new = sortSprintTrail(Append(old, to), orderedSprints(sprints))
                      /\ Range(new) = Range(old) \cup {to}
                      /\ NoRepeat(new)
                      /\ InSprintOrder(new, sprints)
                      /\ currentSprintId(FindTicket(tickets', id)) = LastOf(new)]_vars

C7_Witness ==
    /\ FindTicket(tickets, 1).sprintIds = <<"S1", "S2">>
    /\ FindTicket(tickets, 2).sprintIds = <<BACKLOG_COLUMN_ID, "S1">>
    /\ liveAnnouncement = NoAnnouncement

\* the ticket inputs of addTicket that give no sprint
C8_TrailLessInputs ==
    LET required == [storyPoints : StoryPointChoices,
                     developerId : DeveloperIds(developers),
                     featureId : FeatureIds(features)]
    IN required
       \cup {[storyPoints |-> r.storyPoints, developerId |-> r.developerId,
              featureId |-> r.featureId, sprintIds |-> <<>>, dependencies |-> d] :
                r \in required, d \in DependencyInputs(NoTicket)}

C8_Fallback ==
    /\ (Len(tickets') = Len(tickets) + 1 /\ \E partial \in C8_TrailLessInputs : addTicket(partial))
          => LastOf(tickets').sprintIds = <<BACKLOG_COLUMN_ID>>
    /\ \A id \in TicketIds(tickets) :
          (updateTicket(id, [sprintIds |-> <<>>]) \/ setSprintTrail(id, <<>>))
             => FindTicket(tickets', id).sprintIds = <<BACKLOG_COLUMN_ID>>
    /\ \A data \in ImportSnapshots :
          replaceState(data)
             => \A i \in DOMAIN data.tickets :
                   Range(data.tickets[i].sprintIds)
                         \cap (SprintIds(sprints') \cup {BACKLOG_COLUMN_ID}) = {}
                      => tickets'[i].sprintIds = <<BACKLOG_COLUMN_ID>>

\* C8: after every store operation every ticket's sprintIds is non-empty, and
\* an operation that would produce an empty trail (addTicket without sprintIds,
\* updateTicket or setSprintTrail with an empty list, normalization dropping
\* every id) leaves the trail [Backlog].
C8_TrailNeverEmpty ==
    [][(\A i \in DOMAIN tickets' : Len(tickets'[i].sprintIds) > 0) /\ C8_Fallback]_vars

C8_Witness ==
    /\ Len(tickets) = 2
    /\ tickets[2].id = 2
    /\ tickets[2].sprintIds = <<BACKLOG_COLUMN_ID>>
    /\ tickets[2].dependencies = <<1>>
    /\ tickets[1].sprintIds = <<"S2", "S1">>
    /\ sprints = ReversedSprints

\* C9: every ticket's sprintIds holds no id twice and is ordered by ascending
\* sprint order, the Backlog, if present, first.
C9_TrailSortedWithoutRepeats ==
    \A i \in DOMAIN tickets :
        /\ NoRepeat(tickets[i].sprintIds)
        /\ InSprintOrder(tickets[i].sprintIds, sprints)

C9_Witness ==
    /\ sprints = ReversedSprints
    /\ Len(tickets) = 2
    /\ tickets[1].sprintIds = <<"S2", "S1">>
    /\ tickets[2].sprintIds = <<BACKLOG_COLUMN_ID, "S2">>

\* C10: sortSprintTrail is idempotent, and its result holds each distinct id
\* of its input exactly once.
C10_SortIsIdempotentWithoutRepeats ==
    calc.op = "sorted" =>
        /\ calc.again = calc.out
        /\ Range(calc.out) = Range(calc.T)
        /\ NoRepeat(calc.out)

C10_Witness ==
    /\ calc.op = "sorted"
    /\ calc.T = <<"S3", "S1", "S2", "S3">>
    /\ calc.O = <<"S1", "S2", "S3">>
    /\ calc.out = <<"S1", "S2", "S3">>

\* the positions of the tickets other than `id`, in order
C11_Remaining(id) == SelectSeq([i \in DOMAIN tickets |-> i], LAMBDA i : tickets[i].id # id)

\* C11: after deleteTicket(X) no ticket has id X and no ticket's dependencies
\* hold X; every remaining ticket keeps its place, its fields and its other
\* dependencies in their order; sprints, developers and features are unchanged.
C11_DeleteRemovesTicketAndReferences ==
    [][\A id \in TicketIds(tickets) :
          deleteTicket(id) =>
             LET remaining == C11_Remaining(id)
             IN /\ id \notin TicketIds(tickets')
                /\ \A i \in DOMAIN tickets' : id \notin Range(tickets'[i].dependencies)
                /\ Len(tickets') = Len(remaining)
                /\ \A k \in DOMAIN remaining :
                      LET old == tickets[remaining[k]]
                      IN tickets'[k] =
                            [old EXCEPT !.dependencies =
                                SelectSeq(old.dependencies, LAMBDA d : d # id)]
                /\ UNCHANGED <<sprints, developers, features>>]_vars

C11_Witness ==
    /\ nextTicketId = 3
    /\ Len(tickets) = 1
    /\ tickets[1].id = 2
    /\ tickets[1].dependencies = <<>>
    /\ tickets[1].sprintIds = <<"S1", "S2">>
    /\ persisted.tickets = tickets

\* C12 (as the claim states it): in every state reached from a normalized
\* state by deleteTicket, removeFeature, removeDeveloper, moves, replaceState
\* and resetPlanner, each ticket's dependencies exclude the ticket's own id and
\* hold only ids of tickets that are in the ticket collection.
C12_DependenciesReferToTickets ==
    \A i \in DOMAIN tickets :
        /\ tickets[i].id \notin Range(tickets[i].dependencies)
        /\ Range(tickets[i].dependencies) \subseteq TicketIds(tickets)

\* C13 (as the claim states it): in every reachable state each ticket's
\* developerId is the id of a developer in the developers collection, also
\* when removeDeveloper(d) runs between moveKeyboardTarget onto d's row and
\* commitKeyboardMove.
C13_DeveloperOfEveryTicketExists ==
    \A i \in DOMAIN tickets : tickets[i].developerId \in DeveloperIds(developers)

C14_CallsOnUnassigned ==
    \/ removeDeveloper(UNASSIGNED_DEVELOPER_ID)
    \/ \E patch \in DeveloperPatches : updateDeveloper(UNASSIGNED_DEVELOPER_ID, patch)

\* C14: the Unassigned developer is in the developers collection (and in the
\* persisted one) in every reachable state; removeDeveloper and updateDeveloper
\* called with the Unassigned id leave the store and the persisted data
\* unchanged; addDeveloper, replaceState and resetPlanner never yield a
\* collection without it.
C14_UnassignedAlwaysPresent ==
    /\ [](/\ UNASSIGNED_DEVELOPER_ID \in DeveloperIds(developers)
          /\ UNASSIGNED_DEVELOPER_ID \in DeveloperIds(persisted.developers))
    /\ [][C14_CallsOnUnassigned => UNCHANGED <<dataVars, persisted>>]_vars

C14_Witness ==
    /\ Len(developers) = 2
    /\ developers[1].id = UNASSIGNED_DEVELOPER_ID
    /\ developers[2] = Developer("dev-n1", "Bob")
    /\ persisted.developers = developers
    /\ \A i \in DOMAIN tickets : tickets[i].developerId = UNASSIGNED_DEVELOPER_ID

\* ------------------------------------------------ normalizeState on its own
NormSprintLists ==
    {<<>>, <<Sprint("S1", 1)>>, <<Sprint("S2", 1), Sprint("S1", 2)>>,
     <<Sprint("S1", 1), Sprint("S2", 2), Sprint("S3", 3)>>}
NormDeveloperLists ==
    {<<>>, <<Developer("dev-alice", "Alice")>>,
     <<Developer(UNASSIGNED_DEVELOPER_ID, "Unassigned"), Developer("dev-alice", "Alice")>>,
     <<Developer("dev-alice", "Alice"), Developer(UNASSIGNED_DEVELOPER_ID, "Unassigned")>>}
NormFeatureLists ==
    {<<>>, <<Feature("F1", "Unified Billing")>>,
     <<Feature("F2", "Onboarding Experience"), Feature("F1", "Unified Billing")>>}
NormTrails == {<<>>, <<"S2", "S1">>, <<"S9">>, <<"S1", BACKLOG_COLUMN_ID, "S1">>}
\* no dependency, the ticket itself, or another ticket and an absent one
NormDependencies(id) == {<<>>, <<id>>, <<3 - id, 9>>}
NormUrls == {" https://jira.example/browse ", "  "}
NormTickets(id) ==
    {Ticket(id, 3, dev, feat, trail, deps) @@ [jiraUrl |-> url] :
        dev \in {"dev-alice", "dev-gone"}, feat \in {"F1", "F-gone"},
        trail \in NormTrails, deps \in NormDependencies(id), url \in NormUrls}
NormTicketLists ==
    {<<>>} \cup {<<t>> : t \in NormTickets(1)}
           \cup {<<t, Ticket(2, 5, "dev-alice", "F1", <<"S1">>, <<1, 2>>)
                         @@ [jiraUrl |-> "https://jira.example/browse"]>> :
                    t \in NormTickets(1)}
\* currentSprintId and ticketBaseUrl of a snapshot
NormSettings ==
    {<<Null, Null>>, <<"S9", " https://jira.example/browse ">>, <<"S1", "  ">>,
     <<"S2", "https://jira.example/browse">>}

NormalizeInputs ==
    {[op |-> "snapshot",
      data |-> [sprints |-> ss, developers |-> ds, features |-> fs, tickets |-> ts,
                currentSprintId |-> st[1], ticketBaseUrl |-> st[2]]] :
        ss \in NormSprintLists, ds \in NormDeveloperLists, fs \in NormFeatureLists,
        ts \in NormTicketLists, st \in NormSettings}

InitNormalize ==
    /\ InitStore
    /\ calc \in NormalizeInputs

applyNormalizeState ==
    /\ calc.op = "snapshot"
    /\ LET once == normalizeState(calc.data)
       IN calc' = [op |-> "normalized", data |-> calc.data, once |-> once,
                   twice |-> normalizeState(once)]
    /\ UNCHANGED <<dataVars, persisted, uiVars, nextTicketId>>

\* the snapshot handed to replaceState
applyReplaceState ==
    /\ calc.op = "snapshot"
    /\ replaceState(calc.data)

NormalizeNext ==
    \/ applyNormalizeState
    \/ applyReplaceState

SpecNormalize == InitNormalize /\ [][NormalizeNext]_vars

\* C15: normalizeState(normalizeState(s)) equals normalizeState(s) in sprints,
\* developers, features, tickets, currentSprintId and ticketBaseUrl, for every
\* snapshot s of well-typed records.
C15_NormalizeIsIdempotent ==
    calc.op = "normalized" =>
        /\ calc.twice.sprints = calc.once.sprints
        /\ calc.twice.developers = calc.once.developers
        /\ calc.twice.features = calc.once.features
        /\ calc.twice.tickets = calc.once.tickets
        /\ calc.twice.currentSprintId = calc.once.currentSprintId
        /\ calc.twice.ticketBaseUrl = calc.once.ticketBaseUrl

\* a snapshot that normalization changes in every part
C15_Witness ==
    /\ calc.op = "normalized"
    /\ calc.once.sprints # calc.data.sprints
    /\ calc.once.developers # calc.data.developers
    /\ calc.once.features # calc.data.features
    /\ Len(calc.data.tickets) = 2
    /\ calc.once.tickets[1].sprintIds # calc.data.tickets[1].sprintIds
    /\ \A i \in DOMAIN calc.data.tickets :
          calc.once.tickets[i].dependencies # calc.data.tickets[i].dependencies
    /\ calc.once.tickets[1].jiraUrl # calc.data.tickets[1].jiraUrl
    /\ calc.once.currentSprintId # calc.data.currentSprintId
    /\ calc.once.ticketBaseUrl = "https://jira.example/browse"
    /\ calc.data.ticketBaseUrl # "https://jira.example/browse"

C16_ValidTicket(ticket, given, data, out) ==
    LET sprintSet == SprintIds(out.sprints) \cup {BACKLOG_COLUMN_ID}
    IN /\ ticket.developerId \in DeveloperIds(out.developers)
       /\ ticket.developerId =
             IF given.developerId \in DeveloperIds(out.developers)
             THEN given.developerId ELSE UNASSIGNED_DEVELOPER_ID
       /\ ticket.featureId \in FeatureIds(out.features)
       /\ ticket.featureId =
             IF given.featureId \in FeatureIds(out.features) THEN given.featureId
             ELSE IF data.features = <<>> THEN "feature-default"
             ELSE data.features[1].id
       /\ ticket.id \notin Range(ticket.dependencies)
       /\ Range(ticket.dependencies) \subseteq TicketIds(out.tickets)
       /\ Range(ticket.sprintIds) \subseteq sprintSet
       /\ ticket.sprintIds # <<>>
       /\ (Range(given.sprintIds) \cap sprintSet = {}
              => ticket.sprintIds = <<BACKLOG_COLUMN_ID>>)

\* C16: in the state normalizeState returns (and replaceState installs), each
\* ticket's developerId is an existing developer (Unassigned where the input's
\* was not), its featureId an existing feature (the first feature, or the
\* synthesized default when the input has none, where the input's was not),
\* its dependencies hold neither its own id nor the id of an absent ticket,
\* and its sprintIds hold only existing sprints or Backlog, being [Backlog]
\* when none remains.
C16_NormalizedReferencesAreValid ==
    /\ calc.op = "normalized" =>
          /\ Len(calc.once.tickets) = Len(calc.data.tickets)
          /\ \A i \in DOMAIN calc.once.tickets :
                C16_ValidTicket(calc.once.tickets[i], calc.data.tickets[i],
                                calc.data, calc.once)
    /\ (calc.op = "snapshot" /\ persisted = normalizeState(calc.data)) =>
          /\ State = persisted
          /\ \A i \in DOMAIN tickets :
                C16_ValidTicket(tickets[i], calc.data.tickets[i], calc.data, State)

\* a snapshot without features whose first ticket names an unknown developer,
\* an unknown feature and an unknown sprint and depends on itself, normalized
C16_Witness ==
    /\ calc.op = "normalized"
    /\ calc.data.features = <<>>
    /\ Len(calc.data.tickets) = 2
    /\ calc.data.tickets[1].developerId = "dev-gone"
    /\ calc.data.tickets[1].sprintIds = <<"S9">>
    /\ calc.data.tickets[1].dependencies = <<1>>
    /\ calc.once.tickets[1].developerId = UNASSIGNED_DEVELOPER_ID
    /\ calc.once.tickets[1].featureId = "feature-default"
    /\ calc.once.tickets[1].sprintIds = <<BACKLOG_COLUMN_ID>>
    /\ calc.once.tickets[1].dependencies = <<>>
    /\ calc.once.tickets[2].dependencies = <<1>>

\* C17 (as the claim states it): after normalization on load or replaceState
\* the Unassigned developer exists and is the first element of the developer
\* collection, whether the input list lacks it or holds it at any position.
C17_UnassignedIsFirst ==
    /\ calc.op = "normalized" =>
          calc.once.developers[1].id = UNASSIGNED_DEVELOPER_ID
    /\ developers[1].id = UNASSIGNED_DEVELOPER_ID

C18_Invalid(raw) ==
    /\ raw.parses
    /\ \/ raw.parsed.type # "object"
       \/ \E name \in Collections :
             \/ name \notin DOMAIN raw.parsed.fields
             \/ raw.parsed.fields[name].type # "array"

C18_Replaced(raw) ==
    /\ raw.parses
    /\ ~C18_Invalid(raw)
    /\ ~normalizeStateThrows(PlannerDataOf(raw.parsed))
    /\ LET normalized == normalizeState(PlannerDataOf(raw.parsed))
       IN /\ sprints' = normalized.sprints
          /\ developers' = normalized.developers
          /\ features' = normalized.features
          /\ tickets' = normalized.tickets
          /\ persisted' = normalized

\* C18: an import whose parsed value is not an object, or in which sprints,
\* developers, features or tickets is missing or not an array, sets an error
\* message and leaves the store and the persisted snapshot unchanged; every
\* import replaces either all collections by the normalized snapshot or none.
C18_InvalidImportIsRejectedWhole ==
    [][\A raw \in ImportTexts :
          importFromString(raw) =>
             /\ C18_Invalid(raw) =>
                   /\ error' # Null
                   /\ UNCHANGED <<dataVars, persisted, liveAnnouncement>>
             /\ \/ C18_Replaced(raw)
                \/ UNCHANGED <<dataVars, persisted>>]_vars

\* a file without its tickets array was rejected after an import had replaced
\* the plan
C18_Witness ==
    /\ error = "JSON must include sprints, developers, features, and tickets arrays."
    /\ liveAnnouncement = [kind |-> "Planner data imported."]
    /\ Len(tickets) = 2
    /\ persisted = State

\* C19 (as the claim states it): after resetPlanner, whatever the state
\* before, the store's and the persisted snapshot's sprints, developers,
\* features and tickets are those of the seed dataset, and keyboardMove,
\* notices and liveAnnouncement are cleared.
C19_ResetRestoresSeed ==
    [][resetPlanner =>
          /\ sprints' = seed.sprints
          /\ developers' = seed.developers
          /\ features' = seed.features
          /\ tickets' = seed.tickets
          /\ persisted'.sprints = seed.sprints
          /\ persisted'.developers = seed.developers
          /\ persisted'.features = seed.features
          /\ persisted'.tickets = seed.tickets
          /\ keyboardMove' = NoKeyboardMove
          /\ notices' = <<>>
          /\ liveAnnouncement' = NoAnnouncement]_vars

\* ------------------------------------------------- getCapacityBy on a board
\* S1 holds 8 points, S2 holds 5, S3 has no capacity of its own
CapacitySprints ==
    <<Sprint("S1", 1), [Sprint("S2", 2) EXCEPT !.capacityPerDevSP = 5],
      [id |-> "S3", order |-> 3]>>
CapacityTrails == {<<"S1">>, <<"S1", "S2">>, <<"S2", "S3">>, <<BACKLOG_COLUMN_ID>>}
CapacityTickets(id) ==
    {Ticket(id, sp, dev, "F1", trail, <<>>) :
        sp \in {3, 5}, dev \in {UNASSIGNED_DEVELOPER_ID, "dev-alice"},
        trail \in CapacityTrails}
CapacityBoards ==
    {<<>>} \cup {<<a>> : a \in CapacityTickets(1)}
           \cup {<<a, b>> : a \in CapacityTickets(1), b \in CapacityTickets(2)}
           \cup {<<a, b, Ticket(3, 5, "dev-alice", "F1", <<"S1">>, <<>>)>> :
                    a \in CapacityTickets(1), b \in CapacityTickets(2)}

InitCapacity ==
    /\ sprints = CapacitySprints
    /\ developers = seed.developers
    /\ features = seed.features
    /\ tickets \in CapacityBoards
    /\ currentSprint = "S1"
    /\ ticketBaseUrl = Null
    /\ persisted = State
    /\ keyboardMove = NoKeyboardMove
    /\ liveAnnouncement = NoAnnouncement
    /\ notices = <<>>
    /\ activeTicketId = NoTicket
    /\ error = Null
    /\ registry = NoRegistry
    /\ overlay = NoOverlay
    /\ nextTicketId = 4
    /\ calc = NoCalc

\* a cell of the board asks for its summary
applyGetCapacityBy(developerId, sprintId) ==
    /\ calc' = [op |-> "capacity", developerId |-> developerId, sprintId |-> sprintId,
                summary |-> getCapacityBy(tickets, sprints, developerId, sprintId)]
    /\ UNCHANGED <<dataVars, persisted, uiVars, nextTicketId>>

CapacityNext ==
    \E developerId \in DeveloperIds(developers) :
       \E sprintId \in SprintIds(sprints) \cup {BACKLOG_COLUMN_ID} :
          applyGetCapacityBy(developerId, sprintId)

SpecCapacity == InitCapacity /\ [][CapacityNext]_vars

C20_Cells == DeveloperIds(developers) \X (SprintIds(sprints) \cup {BACKLOG_COLUMN_ID})

\* the tickets of the developer whose trail ends in the sprint
C20_InCell(developerId, sprintId) ==
    {i \in DOMAIN tickets :
        /\ tickets[i].developerId = developerId
        /\ LastOf(tickets[i].sprintIds) = sprintId}

RECURSIVE C20_Points(_)
C20_Points(indices) ==
    IF indices = {} THEN 0
    ELSE LET i == CHOOSE j \in indices : TRUE
         IN tickets[i].storyPoints + C20_Points(indices \ {i})

\* C20: getCapacityBy(developerId, sprintId) returns as assigned the sum of
\* storyPoints over exactly the developer's tickets whose last trail element
\* is sprintId, so that every ticket counts in exactly one cell, the one of
\* its last sprint; over is true exactly when assigned > capacity.
C20_CapacityCountsCurrentSprint ==
    calc.op = "capacity" =>
        /\ calc.summary.assigned = C20_Points(C20_InCell(calc.developerId, calc.sprintId))
        /\ calc.summary.over = (calc.summary.assigned > calc.summary.capacity)
        /\ calc.summary.capacity =
              (IF calc.sprintId = "S1" THEN 8 ELSE IF calc.sprintId = "S2" THEN 5
               ELSE DEFAULT_SPRINT_CAPACITY)
        /\ \A i \in DOMAIN tickets :
              LET counted ==
                      {c \in C20_Cells :
                          getCapacityBy(<<tickets[i]>>, sprints, c[1], c[2]).assigned > 0}
              IN counted = {<<tickets[i].developerId, LastOf(tickets[i].sprintIds)>>}

\* a cell filled exactly to its capacity by two tickets, one of which came
\* through an earlier sprint
C20_Witness ==
    /\ calc.op = "capacity"
    /\ calc.sprintId = "S2"
    /\ calc.summary.assigned = 5
    /\ calc.summary.capacity = 5
    /\ ~calc.summary.over
    /\ \E i \in DOMAIN tickets :
          /\ tickets[i].developerId = calc.developerId
          /\ tickets[i].sprintIds = <<"S1", "S2">>
    /\ \E i \in DOMAIN tickets :
          /\ tickets[i].developerId = calc.developerId
          /\ tickets[i].sprintIds = <<"S1">>

\* ------------------------------------------------------- DependencyOverlay
\* Lengths are in hundredths of a pixel, so that a rectangle may lie off the
\* 0.1 px raster that dedupePoints rounds to.
Px(n) == n * 100

CLEARANCE == Px(6)
GUTTER_BASE == Px(28)
GUTTER_STEP == Px(18)
GUTTER_ATTEMPTS == 5
LANE_STEP == Px(32)
MIN_Y == Px(12)
SAME_COLUMN_BASE == Px(28)
SAME_COLUMN_STEP == Px(22)

Min(a, b) == IF a <= b THEN a ELSE b
Max(a, b) == IF a >= b THEN a ELSE b
Abs(a) == IF a < 0 THEN -a ELSE a
clamp(value, min, max) == Min(max, Max(min, value))
MAX_Y(containerRect) == Max(MIN_Y + Px(4), containerRect.height - Px(12))

\* Math.round(v * 10) / 10 on a length in hundredths: to the nearest tenth,
\* a half rounding up
Round10(v) == ((v + 5) \div 10) * 10

toRelativeRect(id, rect, containerRect) ==
    [id |-> id,
     left |-> rect.left - containerRect.left,
     right |-> rect.right - containerRect.left,
     top |-> rect.top - containerRect.top,
     bottom |-> rect.bottom - containerRect.top,
     width |-> rect.width,
     height |-> rect.height,
     centerX |-> (rect.left - containerRect.left) + rect.width \div 2,
     centerY |-> (rect.top - containerRect.top) + rect.height \div 2]

rectMapOfInventsDragRect(positions, active, activeRect, containerRect) ==
    LET ids == DOMAIN positions \cup (IF active # NoTicket THEN {active} ELSE {})
        invented == [left |-> containerRect.left, top |-> containerRect.top,
                     right |-> containerRect.left + Px(260),
                     bottom |-> containerRect.top + Px(60),
                     width |-> Px(260), height |-> Px(60)]
    IN [id \in ids |->
           IF id \in DOMAIN positions
           THEN toRelativeRect(id, positions[id], containerRect)
           ELSE toRelativeRect(id, IF activeRect # NoRect THEN activeRect ELSE invented,
                               containerRect)]

\* rectMap: the registered rectangles, plus the drag rectangle of the active
\* ticket when the registry has no entry for it
rectMapOf(positions, active, activeRect, containerRect) ==
    LET ids == DOMAIN positions \cup
               (IF active # NoTicket /\ activeRect # NoRect THEN {active} ELSE {})
    IN [id \in ids |->
           IF id \in DOMAIN positions
           THEN toRelativeRect(id, positions[id], containerRect)
           ELSE toRelativeRect(id, activeRect, containerRect)]

horizontalBlocked(rectMap, y, x1, x2, ignore) ==
    LET minX == Min(x1, x2)
        maxX == Max(x1, x2)
    IN \E id \in DOMAIN rectMap \ ignore :
          LET rect == rectMap[id]
          IN /\ y >= rect.top - CLEARANCE /\ y <= rect.bottom + CLEARANCE
             /\ maxX >= rect.left - CLEARANCE /\ minX <= rect.right + CLEARANCE

verticalBlocked(rectMap, x, y1, y2, ignore) ==
    LET minY == Min(y1, y2)
        maxY == Max(y1, y2)
    IN \E id \in DOMAIN rectMap \ ignore :
          LET rect == rectMap[id]
          IN /\ x >= rect.left - CLEARANCE /\ x <= rect.right + CLEARANCE
             /\ maxY >= rect.top - CLEARANCE /\ minY <= rect.bottom + CLEARANCE

Point(x, y) == [x |-> x, y |-> y]

RECURSIVE dedupeInto(_, _)
\* the forEach of dedupePoints: the last kept point is already rounded, the
\* point compared with it is not
dedupeInto(reduced, pts) ==
    IF pts = <<>> THEN reduced
    ELSE LET pt == Head(pts)
             keep == \/ reduced = <<>>
                     \/ reduced[Len(reduced)].x # pt.x
                     \/ reduced[Len(reduced)].y # pt.y
         IN dedupeInto(IF keep THEN Append(reduced, Point(Round10(pt.x), Round10(pt.y)))
                       ELSE reduced,
                       Tail(pts))

dedupePoints(pts) == dedupeInto(<<>>, pts)

\* the offsets findLaneY probes, the preferred one first
laneOffsets(lanePreference) ==
    LET defaultOffsets == <<0, 1, -1, 2, -2, 3, -3, 4, -4, 5, -5>>
        magnitude == Max(1, Abs(lanePreference))
        preferred == IF lanePreference > 0 THEN magnitude ELSE -magnitude
    IN IF lanePreference = 0 THEN defaultOffsets
       ELSE <<preferred>> \o FilterSeq(defaultOffsets, Range(defaultOffsets) \ {preferred})

\* the lane found, as a list of one element, or the empty list for null
findLaneY(rectMap, maxY, basePrefersDown, startRect, endRect, exitX, entryX, lanePreference, startAnchorY, endAnchorY) ==
    LET downStart == clamp(Max(startRect.bottom, endRect.bottom) + Px(20), MIN_Y, maxY)
        upStart == clamp(Min(startRect.top, endRect.top) - Px(20), MIN_Y, maxY)
        orderedBases == IF basePrefersDown THEN <<downStart, upStart>>
                        ELSE <<upStart, downStart>>
        offsets == laneOffsets(lanePreference)
        n == Len(offsets)
        \* k-th candidate in the order of the two nested loops
        candidate(k) == clamp(orderedBases[((k - 1) \div n) + 1]
                                + offsets[((k - 1) % n) + 1] * LANE_STEP,
                              MIN_Y, maxY)
        rejected(c) ==
            \/ c > startRect.top - CLEARANCE /\ c < startRect.bottom + CLEARANCE
            \/ c > endRect.top - CLEARANCE /\ c < endRect.bottom + CLEARANCE
            \/ horizontalBlocked(rectMap, c, exitX, entryX, {startRect.id, endRect.id})
            \/ verticalBlocked(rectMap, exitX, startAnchorY, c, {startRect.id})
            \/ verticalBlocked(rectMap, entryX, endAnchorY, c, {endRect.id})
        accepted == {k \in 1..(2 * n) : ~rejected(candidate(k))}
    IN IF accepted = {} THEN <<>>
       ELSE <<candidate(CHOOSE k \in accepted : \A j \in accepted : k <= j)>>

\* the points of a cross-column path, or the empty list for null
buildCrossColumnPath(rectMap, maxY, startRect, endRect, startAnchorY, endAnchorY, horizontalDir, laneOffsetIndex) ==
    LET preferDown == IF laneOffsetIndex = 0 THEN endRect.centerY >= startRect.centerY
                      ELSE laneOffsetIndex > 0
        startEdgeX == IF horizontalDir > 0 THEN startRect.right ELSE startRect.left
        endEdgeX == IF horizontalDir > 0 THEN endRect.left ELSE endRect.right
        gutter(attempt) == GUTTER_BASE + Abs(laneOffsetIndex) * GUTTER_STEP + attempt * Px(6)
        exitX(attempt) == startEdgeX + horizontalDir * gutter(attempt)
        entryX(attempt) == endEdgeX - horizontalDir * gutter(attempt)
        laneY(attempt) ==
            findLaneY(rectMap, maxY, preferDown, startRect, endRect, exitX(attempt),
                      entryX(attempt), laneOffsetIndex, startAnchorY, endAnchorY)
        usable == {attempt \in 0..(GUTTER_ATTEMPTS - 1) :
                      /\ ~verticalBlocked(rectMap, exitX(attempt), startAnchorY,
                                          startAnchorY, {startRect.id})
                      /\ laneY(attempt) # <<>>}
    IN IF usable = {} THEN <<>>
       ELSE LET attempt == CHOOSE a \in usable : \A b \in usable : a <= b
                lane == laneY(attempt)[1]
            IN dedupePoints(<<Point(startEdgeX, startAnchorY),
                              Point(exitX(attempt), startAnchorY),
                              Point(exitX(attempt), lane),
                              Point(entryX(attempt), lane),
                              Point(entryX(attempt), endAnchorY),
                              Point(endEdgeX, endAnchorY)>>)

buildSameColumnPathCutsCorner(rectMap, containerRect, startRect, endRect, startAnchorY, endAnchorY, laneIndex) ==
    dedupePoints(<<Point(startRect.right, startAnchorY),
                   Point(startRect.right + SAME_COLUMN_BASE, endAnchorY),
                   Point(endRect.right, endAnchorY)>>)

\* the points of a same-column path, or the empty list for null
buildSameColumnPath(rectMap, containerRect, startRect, endRect, startAnchorY, endAnchorY, laneIndex) ==
    LET rightSpace == containerRect.width - Max(startRect.right, endRect.right)
        leftSpace == Min(startRect.left, endRect.left)
        directions == IF rightSpace >= leftSpace THEN <<1, -1>> ELSE <<-1, 1>>
        clampX(value) == clamp(value, Px(4), containerRect.width - Px(4))
        startEdgeX(dir) == IF dir > 0 THEN startRect.right ELSE startRect.left
        endEdgeX(dir) == IF dir > 0 THEN endRect.right ELSE endRect.left
        laneX(dir) == clampX(startEdgeX(dir)
                             + dir * (SAME_COLUMN_BASE + laneIndex * SAME_COLUMN_STEP))
        free(dir) == ~verticalBlocked(rectMap, laneX(dir),
                                      Min(startAnchorY, endAnchorY),
                                      Max(startAnchorY, endAnchorY),
                                      {startRect.id, endRect.id})
        points(dir) == dedupePoints(<<Point(startEdgeX(dir), startAnchorY),
                                      Point(laneX(dir), startAnchorY),
                                      Point(laneX(dir), endAnchorY),
                                      Point(endEdgeX(dir), endAnchorY)>>)
    IN IF free(directions[1]) THEN points(directions[1])
       ELSE IF free(directions[2]) THEN points(directions[2])
       ELSE <<>>

buildPath(rectMap, containerRect, startRect, endRect, startAnchorY, endAnchorY, sameColumn, horizontalDir, laneOffsetIndex, laneIndexSameColumn) ==
    IF sameColumn
    THEN buildSameColumnPath(rectMap, containerRect, startRect, endRect, startAnchorY,
                             endAnchorY, laneIndexSameColumn)
    ELSE buildCrossColumnPath(rectMap, MAX_Y(containerRect), startRect, endRect,
                              startAnchorY, endAnchorY, horizontalDir, laneOffsetIndex)

RECURSIVE dependencyEntries(_, _, _)
\* tickets.forEach(ticket => ticket.dependencies.forEach(depId => ...)): the
\* pairs <<ticket position, dependency position>> in the order of the loops
dependencyEntries(ts, i, j) ==
    IF i > Len(ts) THEN <<>>
    ELSE IF j > Len(ts[i].dependencies) THEN dependencyEntries(ts, i + 1, 1)
    ELSE <<(<<i, j>>)>> \o dependencyEntries(ts, i, j + 1)

\* the entries that become a segment: both tickets exist and have a
\* rectangle, both lie in a sprint column, and during a drag the edge touches
\* the active ticket
hasSegment(ts, orderedSprintIds, rectMap, active, entry) ==
    LET ticket == ts[entry[1]]
        depId == ticket.dependencies[entry[2]]
    IN /\ ~(active # NoTicket /\ active # depId /\ active # ticket.id)
       /\ depId \in TicketIds(ts)
       /\ depId \in DOMAIN rectMap /\ ticket.id \in DOMAIN rectMap
       /\ orderedSprintIds # <<>>
       /\ IndexOf(orderedSprintIds, currentSprintId(FindTicket(ts, depId))) # -1
       /\ IndexOf(orderedSprintIds, currentSprintId(ticket)) # -1

segmentOf(ts, orderedSprintIds, rectMap, entry) ==
    LET ticket == ts[entry[1]]
        depId == ticket.dependencies[entry[2]]
        startRect == rectMap[depId]
        endRect == rectMap[ticket.id]
        startSprintIdx == IndexOf(orderedSprintIds, currentSprintId(FindTicket(ts, depId)))
        endSprintIdx == IndexOf(orderedSprintIds, currentSprintId(ticket))
        sameColumn == startSprintIdx = endSprintIdx
        horizontalDir == IF endRect.centerX >= startRect.centerX THEN 1 ELSE -1
    IN [from |-> depId, to |-> ticket.id,
        startRect |-> startRect, endRect |-> endRect,
        startSprintIdx |-> startSprintIdx, endSprintIdx |-> endSprintIdx,
        sameColumn |-> sameColumn, horizontalDir |-> horizontalDir,
        groupKey |-> IF sameColumn THEN <<"col", startSprintIdx, startSprintIdx, "-">>
                     ELSE <<"row", startSprintIdx, endSprintIdx,
                            IF horizontalDir > 0 THEN "r" ELSE "l">>,
        \* (startRect.centerY + endRect.centerY) / 2
        orderKey |-> (startRect.centerY + endRect.centerY) \div 2,
        startSideKey |-> <<depId, IF horizontalDir > 0 THEN "right" ELSE "left">>,
        endSideKey |-> <<ticket.id, IF horizontalDir > 0 THEN "left" ELSE "right">>]

segmentsOf(ts, orderedSprintIds, rectMap, active) ==
    LET entries == SelectSeq(dependencyEntries(ts, 1, 1),
                             LAMBDA entry : hasSegment(ts, orderedSprintIds, rectMap,
                                                       active, entry))
    IN [k \in DOMAIN entries |-> segmentOf(ts, orderedSprintIds, rectMap, entries[k])]

\* startTotals / endTotals
startTotal(segments, key) == Cardinality({k \in DOMAIN segments : segments[k].startSideKey = key})
endTotal(segments, key) == Cardinality({k \in DOMAIN segments : segments[k].endSideKey = key})

\* assignSlots(..., byStart): the segments are sorted (stably) by the vertical
\* centre of their start rectangle, then of their end rectangle, or the other
\* way round; a segment's slot is the number of segments with its key that
\* come before it, and 0 when its key has a single segment
sortsBefore(segments, byStart, a, b) ==
    LET primary(k) == IF byStart THEN segments[k].startRect.centerY
                      ELSE segments[k].endRect.centerY
        secondary(k) == IF byStart THEN segments[k].endRect.centerY
                        ELSE segments[k].startRect.centerY
    IN \/ primary(a) < primary(b)
       \/ primary(a) = primary(b) /\ secondary(a) < secondary(b)
       \/ primary(a) = primary(b) /\ secondary(a) = secondary(b) /\ a < b

assignSlots(segments, byStart, k) ==
    LET key(m) == IF byStart THEN segments[m].startSideKey ELSE segments[m].endSideKey
        total == IF byStart THEN startTotal(segments, key(k)) ELSE endTotal(segments, key(k))
    IN IF total <= 1 THEN 0
       ELSE Cardinality({m \in DOMAIN segments :
                            /\ m # k
                            /\ key(m) = key(k)
                            /\ sortsBefore(segments, byStart, m, k)})

computeAnchor(rect, slot, total) ==
    IF total <= 1 THEN rect.centerY
    ELSE LET clampedSlot == Max(0, Min(slot, total - 1))
             step == rect.height \div (total + 1)
         IN rect.top + step * (clampedSlot + 1)

RECURSIVE Flatten(_)
Flatten(lists) == IF lists = <<>> THEN <<>> ELSE Head(lists) \o Flatten(Tail(lists))

\* the useMemo `paths`: `d` is kept as its list of points
pathsOf(ts, sprintList, positions, containerRect, show, active, activeRect) ==
    IF containerRect = NoRect \/ ~show THEN <<>>
    ELSE
    LET rectMap == rectMapOf(positions, active, activeRect, containerRect)
        segments == segmentsOf(ts, orderedSprints(sprintList), rectMap, active)
        keys == [k \in DOMAIN segments |-> segments[k].groupKey]
        \* grouped: the group keys in the order of their first segment
        groups == Dedupe(keys, {})
        members(g) == {k \in DOMAIN segments : segments[k].groupKey = g}
        \* list.sort((a, b) => a.orderKey - b.orderKey): position in the group
        idx(k) == Cardinality({m \in members(segments[k].groupKey) :
                      \/ segments[m].orderKey < segments[k].orderKey
                      \/ segments[m].orderKey = segments[k].orderKey /\ m < k})
        laneOffsetIndex(k) ==
            LET length == Cardinality(members(segments[k].groupKey))
                \* twice idx - (list.length - 1) / 2
                relative2 == 2 * idx(k) - (length - 1)
            IN IF segments[k].sameColumn THEN idx(k)
               ELSE IF relative2 = 0 THEN 0
               ELSE IF relative2 > 0 THEN (relative2 + 1) \div 2
               ELSE relative2 \div 2
        points(k) ==
            LET segment == segments[k]
            IN buildPath(rectMap, containerRect, segment.startRect, segment.endRect,
                         computeAnchor(segment.startRect, assignSlots(segments, TRUE, k),
                                       startTotal(segments, segment.startSideKey)),
                         computeAnchor(segment.endRect, assignSlots(segments, FALSE, k),
                                       endTotal(segments, segment.endSideKey)),
                         segment.sameColumn, segment.horizontalDir,
                         laneOffsetIndex(k), idx(k))
        result(k) == LET pts == points(k)
                     IN IF Len(pts) < 2 THEN <<>>
                        ELSE <<[from |-> segments[k].from, to |-> segments[k].to,
                                points |-> pts]>>
        listOf(g) == LET n == Cardinality(members(g))
                     IN [p \in 1..n |-> CHOOSE k \in members(g) : idx(k) = p - 1]
        resultsOf(g) == LET list == listOf(g)
                        IN Flatten([p \in DOMAIN list |-> result(list[p])])
    IN IF DOMAIN rectMap = {} THEN <<>>
       ELSE Flatten([i \in DOMAIN groups |-> resultsOf(groups[i])])

\* ------------------------------------------------ TicketRefProvider, cards
\* a RectSnapshot of getBoundingClientRect
Rect(left, top, width, height) ==
    [left |-> left, top |-> top, right |-> left + width, bottom |-> top + height,
     width |-> width, height |-> height]
\* rectEquals: equal within half a pixel on every edge
RECT_TOLERANCE == 50
rectEquals(a, b) ==
    \A edge \in {"left", "top", "right", "bottom"} : Abs(a[edge] - b[edge]) <= RECT_TOLERANCE

Put(f, key, value) == [k \in DOMAIN f \cup {key} |-> IF k = key THEN value ELSE f[k]]
Drop(f, keys) == [k \in DOMAIN f \ keys |-> f[k]]

\* setTicketPosition(id, rect) of the provider
setTicketPosition(reg, id, rect) ==
    [reg EXCEPT !.pendingRemoval = @ \ {id},
                !.positions = IF id \in DOMAIN @ /\ rectEquals(@[id], rect)
                              THEN @ ELSE Put(@, id, rect)]

\* removeTicketPosition(id), in the callback created by the render in which
\* the provider's activeTicketId was closureActive
removeTicketPosition(reg, closureActive, id) ==
    IF closureActive = id
    THEN [reg EXCEPT !.pendingRemoval = @ \cup {id}]
    ELSE [reg EXCEPT !.positions = Drop(@, {id})]

flushPendingRemovalsKeepsEntries(reg) ==
    IF reg.active # NoTicket \/ reg.pendingRemoval = {} THEN reg
    ELSE [reg EXCEPT !.pendingRemoval = {}]

\* the provider's effect on [activeTicketId]
flushPendingRemovals(reg) ==
    IF reg.active # NoTicket \/ reg.pendingRemoval = {} THEN reg
    ELSE [reg EXCEPT !.positions = Drop(@, reg.pendingRemoval),
                     !.pendingRemoval = {}]

RECURSIVE CleanUp(_, _)
\* the layout effect cleanups of the cards: each calls the
\* removeTicketPosition its effect was created with
CleanUp(reg, ids) ==
    IF ids = {} THEN reg
    ELSE LET id == CHOOSE i \in ids : TRUE
         IN CleanUp(removeTicketPosition(reg, reg.cards[id].closure, id), ids \ {id})

RECURSIVE Report(_, _, _)
\* the layout effects of the cards: each reports its rectangle and keeps the
\* callbacks of this render
Report(reg, ids, rects) ==
    IF ids = {} THEN reg
    ELSE LET id == CHOOSE i \in ids : TRUE
             reported == setTicketPosition(reg, id, rects[id])
         IN Report([reported EXCEPT !.cards =
                        Put(@, id, [closure |-> reg.active, rect |-> rects[id]])],
                   ids \ {id}, rects)

\* the cards FeatureBoard renders: none when collapsed, none for the active ticket
visibleTickets(ticketIds, active, collapsed) ==
    IF collapsed THEN {} ELSE ticketIds \ {active}

\* a commit of the board. When useDndContext().active changed, every mounted
\* card runs its effect again because removeTicketPosition is a new callback,
\* and the provider's effect runs last; otherwise only the cards that leave run
\* their cleanup and only the cards that enter run their effect.
commitBoard(reg, active, collapsed, ticketIds, rects) ==
    LET shown == visibleTickets(ticketIds, active, collapsed)
        changed == active # reg.active
        leaving == IF changed THEN DOMAIN reg.cards ELSE DOMAIN reg.cards \ shown
        entering == IF changed THEN shown ELSE shown \ DOMAIN reg.cards
        cleaned == CleanUp(reg, leaving)
        rendered == [cleaned EXCEPT !.active = active, !.collapsed = collapsed,
                                    !.cards = Drop(@, DOMAIN @ \ shown)]
        reported == Report(rendered, entering, rects)
    IN IF changed THEN flushPendingRemovals(reported) ELSE reported

\* where the cards of the board lie, and where a card lies after a scroll
CardRects ==
    {Rect(0, 0, Px(260), Px(60)), Rect(0, Px(80), Px(260), Px(60)),
     Rect(0, Px(160), Px(260), Px(60))}
CardRectOf(reg, id) ==
    IF id \in DOMAIN reg.cards THEN reg.cards[id].rect
    ELSE Rect(0, Px(80) * (id - 1), Px(260), Px(60))
CardRectsOf(reg, ticketIds) == [id \in ticketIds |-> CardRectOf(reg, id)]

InitRegistry ==
    /\ InitBoard
    /\ calc = NoCalc

\* the board renders: every card mounts and reports
mountBoard ==
    /\ registry = NoRegistry
    /\ registry' = commitBoard(registry, NoTicket, registry.collapsed, TicketIds(tickets),
                               CardRectsOf(registry, TicketIds(tickets)))
    /\ UNCHANGED <<dataVars, persisted, keyboardMove, liveAnnouncement, notices,
                   activeTicketId, error, nextTicketId, calc, overlay>>

dndDragStart(id) ==
    /\ registry.active = NoTicket
    /\ id \in DOMAIN registry.cards
    /\ registry' = commitBoard(registry, id, registry.collapsed, TicketIds(tickets),
                               CardRectsOf(registry, TicketIds(tickets)))
    /\ UNCHANGED <<dataVars, persisted, keyboardMove, liveAnnouncement, notices,
                   activeTicketId, error, nextTicketId, calc, overlay>>

dndDragEnd ==
    /\ registry.active # NoTicket
    /\ registry' = commitBoard(registry, NoTicket, registry.collapsed, TicketIds(tickets),
                               CardRectsOf(registry, TicketIds(tickets)))
    /\ UNCHANGED <<dataVars, persisted, keyboardMove, liveAnnouncement, notices,
                   activeTicketId, error, nextTicketId, calc, overlay>>

\* onToggle of the feature header
toggleFeature ==
    /\ registry # NoRegistry
    /\ registry' = commitBoard(registry, registry.active, ~registry.collapsed,
                               TicketIds(tickets), CardRectsOf(registry, TicketIds(tickets)))
    /\ UNCHANGED <<dataVars, persisted, keyboardMove, liveAnnouncement, notices,
                   activeTicketId, error, nextTicketId, calc, overlay>>

\* ResizeObserver, scroll or resize: updatePosition of a mounted card
updatePosition(id, rect) ==
    /\ id \in DOMAIN registry.cards
    /\ registry.cards[id].rect # rect
    /\ registry' = [setTicketPosition(registry, id, rect) EXCEPT
                       !.cards[id].rect = rect]
    /\ UNCHANGED <<dataVars, persisted, keyboardMove, liveAnnouncement, notices,
                   activeTicketId, error, nextTicketId, calc, overlay>>

\* a consumer rendered with the provider's current value calls the callbacks
callSetTicketPosition(id, rect) ==
    /\ registry # NoRegistry
    /\ registry' = setTicketPosition(registry, id, rect)
    /\ UNCHANGED <<dataVars, persisted, keyboardMove, liveAnnouncement, notices,
                   activeTicketId, error, nextTicketId, calc, overlay>>

callRemoveTicketPosition(id) ==
    /\ registry # NoRegistry
    /\ registry' = removeTicketPosition(registry, registry.active, id)
    /\ UNCHANGED <<dataVars, persisted, keyboardMove, liveAnnouncement, notices,
                   activeTicketId, error, nextTicketId, calc, overlay>>

RegistryNext ==
    \/ mountBoard
    \/ \E id \in TicketIds(tickets) : dndDragStart(id)
    \/ dndDragEnd
    \/ toggleFeature
    \/ \E id \in TicketIds(tickets) : \E rect \in CardRects : updatePosition(id, rect)
    \/ \E id \in TicketIds(tickets) : \E rect \in CardRects : callSetTicketPosition(id, rect)
    \/ \E id \in TicketIds(tickets) : callRemoveTicketPosition(id)

SpecRegistry == InitRegistry /\ [][RegistryNext]_vars

\* ------------------------------------------------ the board on the screen
\* The grid of FeatureBoard: a label column of 12rem, then one column per
\* sprint; a card is 260 px wide and lies at the left of its sprint's column,
\* in one of the rows. The container lies off the 0.1 px raster.
MaxRows == 3
ColumnPitches == {Px(276), Px(320)}
LABEL_COLUMN == Px(192)
CARD_WIDTH == Px(260)
CARD_HEIGHT == Px(60)
ROW_PITCH == Px(80)
ContainerLeft == 1204
ContainerTop == 804
BoardTop == 4004

ContainerRectOf(pitch, columns) ==
    Rect(ContainerLeft, ContainerTop, LABEL_COLUMN + columns * pitch, Px(400))

\* getBoundingClientRect of the card in column `column` and row `row`
GridRect(pitch, column, row) ==
    Rect(ContainerLeft + LABEL_COLUMN + column * pitch,
         ContainerTop + BoardTop + row * ROW_PITCH, CARD_WIDTH, CARD_HEIGHT)

ColumnOf(ticket) == IndexOf(orderedSprints(sprints), currentSprintId(ticket))

CardRectIn(layout, id) ==
    GridRect(layout.pitch, ColumnOf(FindTicket(tickets, id)), layout.rows[id])

\* the rows the cards can take: two cards of one column lie in different rows
RowLayouts ==
    {rows \in [TicketIds(tickets) -> 0..(MaxRows - 1)] :
        \A a, b \in TicketIds(tickets) :
            (a # b /\ ColumnOf(FindTicket(tickets, a)) = ColumnOf(FindTicket(tickets, b)))
                => rows[a] # rows[b]}

\* where the dragged card can hover: a little right of and below a grid cell
HoverRects(pitch) ==
    {Rect(ContainerLeft + LABEL_COLUMN + column * pitch + Px(10),
          ContainerTop + BoardTop + row * ROW_PITCH + Px(4), CARD_WIDTH, CARD_HEIGHT) :
        column \in 0..1, row \in 0..(MaxRows - 1)}

\* the boards drawn: a dependent in the next column; a prerequisite with a
\* dependent below it and one in the column to its left; a prerequisite with
\* two dependents in the next column
RouterBoards ==
    {<<Ticket(1, 5, "dev-alice", "F1", <<"S1">>, <<>>),
       Ticket(2, 3, "dev-alice", "F1", <<"S2">>, <<1>>)>>,
     <<Ticket(1, 5, "dev-alice", "F1", <<"S2">>, <<>>),
       Ticket(2, 3, "dev-alice", "F1", <<"S2">>, <<1>>),
       Ticket(3, 2, "dev-alice", "F1", <<"S1">>, <<1>>)>>,
     <<Ticket(1, 5, "dev-alice", "F1", <<"S1">>, <<>>),
       Ticket(2, 3, "dev-alice", "F1", <<"S2">>, <<1>>),
       Ticket(3, 2, "dev-alice", "F1", <<"S2">>, <<1>>)>>}

InitRouter ==
    /\ sprints = seed.sprints
    /\ developers = seed.developers
    /\ features = seed.features
    /\ tickets \in RouterBoards
    /\ currentSprint = seed.currentSprintId
    /\ ticketBaseUrl = seed.ticketBaseUrl
    /\ persisted = [seed EXCEPT !.tickets = tickets]
    /\ keyboardMove = NoKeyboardMove
    /\ liveAnnouncement = NoAnnouncement
    /\ notices = <<>>
    /\ activeTicketId = NoTicket
    /\ nextTicketId = 4
    /\ calc = NoCalc
    /\ error = Null
    /\ registry = NoRegistry
    /\ overlay = NoOverlay

RouterFrame ==
    UNCHANGED <<dataVars, persisted, keyboardMove, liveAnnouncement, notices,
                activeTicketId, error, nextTicketId, calc>>

\* every card reports the rectangle the layout gives it
ReportLayout(reg, layout, ids) ==
    Report(reg, ids, [id \in ids |-> CardRectIn(layout, id)])

\* first render: the cards mount and report, the overlay measures its container
mountOverlay(pitch, rows) ==
    /\ overlay.containerRect = NoRect
    /\ LET layout == [pitch |-> pitch, rows |-> rows]
       IN /\ registry' = ReportLayout(registry, layout, TicketIds(tickets))
          /\ overlay' = [overlay EXCEPT !.layout = layout,
                            !.containerRect = ContainerRectOf(pitch, Len(sprints))]
    /\ RouterFrame

\* the window is resized: the columns change their width, the cards and the
\* container observe it
resizeBoard(pitch) ==
    /\ overlay.containerRect # NoRect
    /\ pitch # overlay.layout.pitch
    /\ LET layout == [overlay.layout EXCEPT !.pitch = pitch]
       IN /\ registry' = ReportLayout(registry, layout, DOMAIN registry.cards)
          /\ overlay' = [overlay EXCEPT !.layout = layout,
                            !.containerRect = ContainerRectOf(pitch, Len(sprints))]
    /\ RouterFrame

\* the rows of the board change (another developer, another stacking)
relayoutBoard(rows) ==
    /\ overlay.containerRect # NoRect
    /\ rows # overlay.layout.rows
    /\ LET layout == [overlay.layout EXCEPT !.rows = rows]
       IN /\ registry' = ReportLayout(registry, layout, DOMAIN registry.cards)
          /\ overlay' = [overlay EXCEPT !.layout = layout]
    /\ RouterFrame

toggleDependencies ==
    /\ overlay' = [overlay EXCEPT !.show = ~@]
    /\ UNCHANGED registry
    /\ RouterFrame

\* a drag starts: FeatureBoard stops rendering the card, whose cleanup runs
\* with the callback it captured; dnd-kit may not have measured the rect yet
overlayDragStart(id, measured) ==
    /\ overlay.containerRect # NoRect
    /\ overlay.active = NoTicket
    /\ id \in DOMAIN registry.cards
    /\ registry' = [CleanUp(registry, {id}) EXCEPT !.cards = Drop(@, {id})]
    /\ overlay' = [overlay EXCEPT !.active = id,
                      !.activeRect = IF measured THEN registry.cards[id].rect ELSE NoRect]
    /\ RouterFrame

\* active.rect.current.translated follows the pointer
overlayDragMove(rect) ==
    /\ overlay.active # NoTicket
    /\ rect # overlay.activeRect
    /\ overlay' = [overlay EXCEPT !.activeRect = rect]
    /\ UNCHANGED registry
    /\ RouterFrame

\* the drag ends or is cancelled: the card mounts again and reports
overlayDragEnd ==
    /\ overlay.active # NoTicket
    /\ registry' = ReportLayout(registry, overlay.layout, {overlay.active})
    /\ overlay' = [overlay EXCEPT !.active = NoTicket, !.activeRect = NoRect]
    /\ RouterFrame

RouterNext ==
    \/ \E pitch \in ColumnPitches : \E rows \in RowLayouts : mountOverlay(pitch, rows)
    \/ \E pitch \in ColumnPitches : resizeBoard(pitch)
    \/ \E rows \in RowLayouts : relayoutBoard(rows)
    \/ toggleDependencies
    \/ \E id \in TicketIds(tickets) : \E measured \in BOOLEAN : overlayDragStart(id, measured)
    \/ \E rect \in HoverRects(overlay.layout.pitch) : overlayDragMove(rect)
    \/ overlayDragEnd

SpecRouter == InitRouter /\ [][RouterNext]_vars

\* the paths the overlay draws in the current state
paths ==
    pathsOf(tickets, sprints, registry.positions, overlay.containerRect, overlay.show,
            overlay.active, overlay.activeRect)

\* C21 (as the claim states it): from the moment a ticket becomes the active
\* item until the drag ends or is cancelled, no call to removeTicketPosition
\* for it, the unmount cleanup of its card included, deletes its entry from
\* the position registry (the removal is recorded as pending); for a ticket
\* that is not active the entry is deleted at once.
C21_ActiveEntryIsKeptDuringDrag ==
    [][/\ \A id \in TicketIds(tickets) :
             (registry'.active = id /\ id \in DOMAIN registry.positions)
                => id \in DOMAIN registry'.positions
       /\ \A id \in TicketIds(tickets) :
             (callRemoveTicketPosition(id) /\ registry.active # id)
                => id \notin DOMAIN registry'.positions]_vars

\* C29: deferred removals are flushed when the gesture ends. On the step in
\* which the active item becomes none, every id whose removal was deferred
\* and that is not reported again through setTicketPosition is deleted from
\* the registry and the pending set becomes empty; an id that is reported
\* again (during the gesture or by its card mounting at the end) keeps its
\* entry and leaves the pending set.
C29_ReportedAgain == visibleTickets(TicketIds(tickets), NoTicket, registry.collapsed)
rectMap ==
    IF overlay.containerRect = NoRect THEN <<>>
    ELSE rectMapOf(registry.positions, overlay.active, overlay.activeRect,
                   overlay.containerRect)

\* the dependency edges: <<prerequisite, dependent>>, one per entry of a
\* dependency list
RouterEdges ==
    LET entries == dependencyEntries(tickets, 1, 1)
    IN [k \in DOMAIN entries |->
           <<tickets[entries[k][1]].dependencies[entries[k][2]], tickets[entries[k][1]].id>>]

PathsOfEdge(drawn, edge) ==
    SelectSeq(drawn, LAMBDA path : path.from = edge[1] /\ path.to = edge[2])

Overlapping(a, b) ==
    /\ a.left < b.right /\ b.left < a.right
    /\ a.top < b.bottom /\ b.top < a.bottom

\* C22 (as the claim states it): with the overlay visible, an edge between
\* two tickets in different sprint columns whose rectangles do not overlap,
\* no other rectangle being registered, yields exactly one path; its first
\* point is the source anchor (the exit-side edge of the source at the anchor
\* y) and its last point the destination anchor (the entry-side edge of the
\* destination at the anchor y), rounded to 0.1. (Edges that the drag filter
\* excludes are left out: the edge touches the active ticket if there is one.)
C22_OnePathBetweenTwoTickets ==
    (overlay.show /\ overlay.containerRect # NoRect /\ Cardinality(DOMAIN rectMap) = 2) =>
        \A k \in DOMAIN RouterEdges :
            LET from == RouterEdges[k][1]
                to == RouterEdges[k][2]
            IN (/\ DOMAIN rectMap = {from, to}
                /\ overlay.active \in {NoTicket, from, to}
                /\ from # to
                /\ ColumnOf(FindTicket(tickets, from)) # ColumnOf(FindTicket(tickets, to))
                /\ ColumnOf(FindTicket(tickets, from)) # -1
                /\ ColumnOf(FindTicket(tickets, to)) # -1
                /\ ~Overlapping(rectMap[from], rectMap[to]))
               => LET s == rectMap[from]
                      e == rectMap[to]
                      right == e.centerX >= s.centerX
                      found == PathsOfEdge(paths, RouterEdges[k])
                  IN /\ Len(found) = 1
                     /\ found[1].points[1] =
                            Point(Round10(IF right THEN s.right ELSE s.left),
                                  Round10(s.centerY))
                     /\ found[1].points[Len(found[1].points)] =
                            Point(Round10(IF right THEN e.left ELSE e.right),
                                  Round10(e.centerY))

\* the straight piece from a to b meets the inside of rect
PassesThrough(a, b, rect) ==
    /\ Min(a.x, b.x) < rect.right /\ Max(a.x, b.x) > rect.left
    /\ Min(a.y, b.y) < rect.bottom /\ Max(a.y, b.y) > rect.top

\* C23 (as the claim states it): no piece of an emitted path -- edge stub,
\* vertical stub, horizontal or vertical lane -- passes through the rectangle
\* of a ticket other than the two endpoints of its edge.
C23_PathsAvoidOtherTickets ==
    LET drawn == paths
        rects == rectMap
    IN \A k \in DOMAIN drawn :
          \A i \in 1..(Len(drawn[k].points) - 1) :
              \A id \in DOMAIN rects \ {drawn[k].from, drawn[k].to} :
                  ~PassesThrough(drawn[k].points[i], drawn[k].points[i + 1], rects[id])

\* C24 (as the claim states it): two emitted paths that leave the same side
\* of the same source ticket start at different heights, and the order of
\* their start heights is the order of the vertical centres of their
\* destinations; same-column and cross-column paths alike.
C24_SharedSideFansOut ==
    LET drawn == paths
        rects == rectMap
    IN \A k, m \in DOMAIN drawn :
          (/\ k # m
           /\ drawn[k].from = drawn[m].from
           /\ drawn[k].points[1].x = drawn[m].points[1].x)
          => /\ drawn[k].points[1].y # drawn[m].points[1].y
             /\ drawn[k].points[1].y < drawn[m].points[1].y
                   => rects[drawn[k].to].centerY <= rects[drawn[m].to].centerY

\* C25: a path is emitted for an edge only if both of its tickets have a
\* rectangle (a registry entry, or the drag rectangle for the active ticket);
\* an edge with a missing rectangle yields no path, every edge (entry of a
\* dependency list) yields at most one path, and there are never more paths
\* than dependency edges.
C25_HasRect(id) ==
    \/ id \in DOMAIN registry.positions
    \/ id = overlay.active /\ id # NoTicket /\ overlay.activeRect # NoRect
C25_PathsOnlyBetweenKnownRects ==
    LET drawn == paths
        edges == RouterEdges
    IN /\ \A k \in DOMAIN drawn : C25_HasRect(drawn[k].from) /\ C25_HasRect(drawn[k].to)
       /\ \A k \in DOMAIN edges :
             /\ Len(PathsOfEdge(drawn, edges[k]))
                   <= Cardinality({m \in DOMAIN edges : edges[m] = edges[k]})
             /\ ~(C25_HasRect(edges[k][1]) /\ C25_HasRect(edges[k][2]))
                   => PathsOfEdge(drawn, edges[k]) = <<>>
       /\ \A k \in DOMAIN drawn : \E m \in DOMAIN edges : edges[m] = <<drawn[k].from, drawn[k].to>>
       /\ Len(drawn) <= Len(edges)
\* a drag whose rectangle is not measured yet, with the overlay visible: the
\* edges of the dragged ticket have no path; and a state with a path
C25_Witness ==
    /\ overlay.show
    /\ overlay.active # NoTicket /\ overlay.activeRect = NoRect
    /\ \E k \in DOMAIN RouterEdges : overlay.active \in {RouterEdges[k][1], RouterEdges[k][2]}
    /\ paths = <<>>

\* C26: every emitted path is an axis-aligned polyline of at least two
\* points: any two consecutive points have the same x or the same y.
C26_PathsAreOrthogonal ==
    LET drawn == paths
    IN \A k \in DOMAIN drawn :
          /\ Len(drawn[k].points) >= 2
          /\ \A i \in 1..(Len(drawn[k].points) - 1) :
                \/ drawn[k].points[i].x = drawn[k].points[i + 1].x
                \/ drawn[k].points[i].y = drawn[k].points[i + 1].y
\* a cross-column path of six points and a same-column path of four points
\* are drawn, and rounding moved the first anchor
C26_Witness ==
    LET drawn == paths
    IN \E k, m \in DOMAIN drawn :
          /\ Len(drawn[k].points) = 6
          /\ Len(drawn[m].points) = 4
          /\ drawn[k].points[1].y # rectMap[drawn[k].from].centerY

\* ------------------------------------------------------------ checked moves
\* the relocations that pass through the dependency check: a drop and the
\* commit of a keyboard move
CheckedMovesNext ==
    \/ DragIdle /\ KeyboardNext
    \/ DragIdle /\ \E id \in TicketIds(tickets) : handleDragStart(id)
    \/ resetDragState
    \/ \E to \in SprintChoices : \E dev \in DeveloperIds(developers) :
          \E isExtend \in BOOLEAN : handleDragEnd(to, dev, isExtend)

SpecCheckedMoves == InitBoard /\ [][CheckedMovesNext]_vars

\* C27 (as the claim states it): the dependency order is preserved by checked
\* moves. Starting from a state where, for every ticket and each of its
\* dependencies whose current sprints are both real sprints, the dependency's
\* current sprint is not after the ticket's, every sequence of drops and
\* committed keyboard moves (move or extend, of any ticket) leaves it so.
C27_DependencyOrderIsPreserved ==
    LET O == orderedSprints(sprints)
    IN \A i \in DOMAIN tickets : \A d \in Range(tickets[i].dependencies) :
          (/\ d \in TicketIds(tickets)
           /\ sprintIndex(currentSprintId(tickets[i]), O) # -1
           /\ sprintIndex(currentSprintId(FindTicket(tickets, d)), O) # -1)
          => sprintIndex(currentSprintId(FindTicket(tickets, d)), O)
                <= sprintIndex(currentSprintId(tickets[i]), O)

\* ------------------------------------------------- features and settings
\* nanoid(): an id no feature of the store has
NewFeatureIds == {"F-n1"} \ FeatureIds(features)
MaxFeatures == 2

addFeature(name, newId) ==
    LET trimmed == trim(name)
    IN IF trimmed = ""
       THEN UNCHANGED vars
       ELSE /\ Len(features) < MaxFeatures
            /\ LET nextFeatures == Append(features, Feature(newId, trimmed))
               IN /\ Persist([features |-> nextFeatures])
                  /\ features' = nextFeatures
            /\ UNCHANGED <<sprints, developers, tickets, currentSprint, ticketBaseUrl,
                           uiVars, nextTicketId, calc>>

\* a patch holds a name, a url, or both
updateFeature(id, patch) ==
    /\ LET merged(feature) ==
               LET trimmedName == IF "name" \in DOMAIN patch THEN trim(patch.name) ELSE ""
                   providedUrl == IF "url" \in DOMAIN patch THEN trim(patch.url) ELSE Undefined
                   normalizedUrl ==
                       IF "url" \notin DOMAIN patch
                       THEN (IF "url" \in DOMAIN feature THEN feature.url ELSE Undefined)
                       ELSE IF providedUrl # "" THEN providedUrl ELSE Undefined
               IN [id |-> feature.id,
                   name |-> IF trimmedName # "" THEN trimmedName ELSE feature.name,
                   url |-> normalizedUrl]
           nextFeatures == [i \in DOMAIN features |->
                               IF features[i].id # id THEN features[i]
                               ELSE merged(features[i])]
       IN /\ Persist([features |-> nextFeatures])
          /\ features' = nextFeatures
    /\ UNCHANGED <<sprints, developers, tickets, currentSprint, ticketBaseUrl,
                   uiVars, nextTicketId, calc>>

setCurrentSprint(id) ==
    /\ LET ordered == SortByOrder(sprints)
           fallback == IF ordered = <<>> THEN Null ELSE ordered[1].id
           valid == IF id # Null /\ id \in SprintIds(sprints) THEN id ELSE fallback
       IN /\ Persist([currentSprintId |-> valid])
          /\ currentSprint' = valid
    /\ UNCHANGED <<sprints, developers, features, tickets, ticketBaseUrl,
                   uiVars, nextTicketId, calc>>

TicketLinksMessage(url) == [kind |-> "Ticket links will now use", url |-> url]
LinkBaseClearedMessage == [kind |-> "Ticket link base cleared."]

setTicketBaseUrl(url) ==
    /\ LET trimmed == IF url # Null /\ trim(url) # "" THEN trim(url) ELSE Null
       IN /\ Persist([ticketBaseUrl |-> trimmed])
          /\ ticketBaseUrl' = trimmed
          /\ liveAnnouncement' = IF trimmed # Null THEN TicketLinksMessage(trimmed)
                                 ELSE LinkBaseClearedMessage
    /\ UNCHANGED <<sprints, developers, features, tickets, currentSprint, keyboardMove,
                   notices, activeTicketId, error, registry, overlay, nextTicketId, calc>>

FeaturePatches == {[name |-> " Bob ", url |-> " https://jira.example/browse "]}
SprintInputs == {Null, "S2"}
UrlInputs == {Null, "  ", " https://jira.example/browse "}

\* the inputs of the operations, one or two of each kind
PersistenceNames == {" Bob ", "  "}
PersistenceTickets ==
    [storyPoints : StoryPointChoices, developerId : {UNASSIGNED_DEVELOPER_ID},
     featureId : FeatureIds(features) \cap {"F1"}]
PersistenceImports ==
    {Snapshot(ReversedSprints, UnassignedLast, <<Feature("F1", "Unified Billing")>>,
              StrayTickets, "S2")}

\* every operation of the store that changes the plan
PersistenceNext ==
    \/ \E name \in PersistenceNames : \E newId \in NewFeatureIds : addFeature(name, newId)
    \/ \E id \in FeatureIds(features) \ {"F1"} : \E patch \in FeaturePatches :
          updateFeature(id, patch)
    \/ \E id \in FeatureIds(features) \ {"F1"} : removeFeature(id)
    \/ \E name \in PersistenceNames : addDeveloper(name, "dev-n1")
    \/ \E id \in DeveloperIds(developers) : updateDeveloper(id, [name |-> "Bob "])
    \/ \E id \in DeveloperIds(developers) : removeDeveloper(id)
    \/ \E partial \in PersistenceTickets : addTicket(partial)
    \/ \E id \in TicketIds(tickets) :
          updateTicket(id, [developerId |-> UNASSIGNED_DEVELOPER_ID])
    \/ \E id \in TicketIds(tickets) : deleteTicket(id)
    \/ \E id \in TicketIds(tickets) : moveTicket(id, "S2", "move")
    \/ \E id \in SprintInputs : setCurrentSprint(id)
    \/ \E url \in UrlInputs : setTicketBaseUrl(url)
    \/ \E data \in PersistenceImports : replaceState(data)
    \/ resetPlanner

SpecPersistence == Init /\ [][PersistenceNext]_vars

\* C28 (as the claim states it): after every operation of the store that
\* changes the plan, the snapshot last handed to persistence has the same
\* sprints, developers, features, tickets, currentSprintId and ticketBaseUrl
\* as the store.
C28_PersistedSnapshotEqualsStore ==
    /\ persisted.sprints = sprints
    /\ persisted.developers = developers
    /\ persisted.features = features
    /\ persisted.tickets = tickets
    /\ persisted.currentSprintId = currentSprint
    /\ persisted.ticketBaseUrl = ticketBaseUrl

\* ------------------------------------------------ ensureSprintSlots on its own
MaxSprints == 3
SlotSprintIds == {"S1", "S2", "S3", "Q1"}
SlotOrders == {1, 2, 3, 5}
\* sprint lists with pairwise distinct ids and pairwise distinct orders
SlotInputs ==
    {ss \in UNION {[1..n -> [id : SlotSprintIds, order : SlotOrders,
                             capacityPerDevSP : {DEFAULT_SPRINT_CAPACITY}]] :
                      n \in 0..MaxSprints} :
        \A i, j \in DOMAIN ss : i # j => ss[i].id # ss[j].id /\ ss[i].order # ss[j].order}

InitSlots ==
    /\ InitStore
    /\ calc \in {[op |-> "sprintList", sprints |-> ss] : ss \in SlotInputs}

applyEnsureSprintSlots ==
    /\ calc.op = "sprintList"
    /\ calc' = [op |-> "slotted", sprints |-> calc.sprints,
                out |-> ensureSprintSlots(calc.sprints)]
    /\ UNCHANGED <<dataVars, persisted, uiVars, nextTicketId>>

SlotsNext == applyEnsureSprintSlots

SpecSlots == InitSlots /\ [][SlotsNext]_vars

\* C30 (as the claim states it): for every sprint list with pairwise distinct
\* ids and orders -- lists shorter than the required count whose ids already
\* have the form S<k> included -- ensureSprintSlots returns at least
\* REQUIRED_SPRINT_COUNT sprints, sorted by order, holding every input sprint,
\* with pairwise distinct ids and pairwise distinct orders.
C30_SprintSlotsAreDistinct ==
    calc.op = "slotted" =>
        LET out == calc.out
        IN /\ Len(out) >= REQUIRED_SPRINT_COUNT
           /\ \A i, j \in DOMAIN out : i < j => out[i].order <= out[j].order
           /\ Range(calc.sprints) \subseteq Range(out)
           /\ \A i, j \in DOMAIN out :
                 i # j => out[i].id # out[j].id /\ out[i].order # out[j].order

====
